---- MODULE Spec2Model ----
\* Verification model of the claude-code-gitea-action orchestration core:
\* the capability gate (create-prompt), the prepare pipeline (prepare.ts and the
\* functions it awaits) and the final comment update (update-comment-link.ts).
EXTENDS Integers, Sequences, FiniteSets, TLC

VARIABLES
    \* ---- capability gate (create-prompt) ----
    customAllowedTools,     \* combinedAllowedTools handed to the two builders
    customDisallowedTools,  \* combinedDisallowedTools
    actionsPermission,      \* context.inputs.additionalPermissions.get("actions")
    useCommitSigning,       \* context.inputs.useCommitSigning
    toolsPc,                \* "input" | "resolved"
    ALLOWED_TOOLS,          \* exported variable, as the list of its comma-separated items
    DISALLOWED_TOOLS_OUT,   \* exported variable DISALLOWED_TOOLS, same representation
    \* ---- environment and event context (read-only after construction) ----
    GITEA_API_URL_ENV,      \* process.env.GITEA_API_URL
    GITEA_SERVER_URL_ENV,   \* process.env.GITEA_SERVER_URL
    GITHUB_SERVER_URL_ENV,  \* process.env.GITHUB_SERVER_URL
    eventName,              \* context.eventName
    isPR,                   \* context.isPR
    entityNumber,           \* context.entityNumber
    baseBranchInput,        \* context.inputs.baseBranch ("" when not configured)
    actorType,              \* the type field of the actor's profile on the forge
    prState,                \* state of the PR on the forge ("NONE" for an issue)
    \* ---- prepare pipeline ----
    pc,                     \* the step run() is about to await, or how it ended
    permissionLookups,      \* collaborator-permission requests issued
    containsTriggerOutput,  \* output contains_trigger
    triggerInput,           \* what checkTriggerAction evaluated (NoTriggerInput before it ran)
    createRequests,         \* create-comment requests issued, in order
    forgeComments,          \* comments that exist on the forge, in creation order
    commentId,              \* id returned by createInitialComment (0: none)
    gitHead,                \* branch checked out in the working copy
    gitCheckouts,           \* checkouts that completed successfully, in order
    createdBranches,        \* branches created by this job
    branchInfo,             \* BranchInfo returned by setupBranch
    trackingBranchLink,     \* branch written into the tracking comment by step 10
    promptCreated,          \* createPrompt wrote the prompt file
    mcpBranchName,          \* BRANCH_NAME of the generated MCP configuration
    failedStatus,           \* core.setFailed message ("" when not called)
    prepareErrorOutput,     \* output prepare_error ("" when not set)
    exitCode,               \* process exit code (-1 while running)
    permissionLevel,        \* answer of the permission lookup ("" when none was made)
    stepsCompleted,         \* the steps of run() that completed, in order
    branchSetupFailure,     \* the step of new-branch creation that failed ("" when none)
    \* ---- final update (entrypoints/update-comment-link.ts) ----
    CLAUDE_BRANCH_ENV,      \* process.env.CLAUDE_BRANCH (<< >> when unset)
    BASE_BRANCH_ENV,        \* process.env.BASE_BRANCH (<< >> when unset)
    PREPARE_SUCCESS,        \* process.env.PREPARE_SUCCESS
    PREPARE_ERROR,          \* process.env.PREPARE_ERROR
    CLAUDE_SUCCESS,         \* process.env.CLAUDE_SUCCESS
    outputFile,             \* state of the file named by OUTPUT_FILE
    cleanupObs,             \* what the cleanup classification's branch lookups find
    prLinkObs,              \* what the PR-link check's branch lookups find
    commentStore,           \* forge comments with id CLAUDE_COMMENT_ID, per id namespace
    trackingFamily,         \* id namespace in which this job's comment was created
    updPc,                  \* position of update-comment-link's run()
    runs,                   \* runs of the final update step started so far
    fetchRequests,          \* comment GET requests issued, in order (all runs)
    updateRequests,         \* comment PATCH requests issued, in order (all runs)
    branchDeletes,          \* branch-delete operations issued to the forge or git
    comment,                \* run(): the fetched comment body
    isPRReviewComment,      \* run(): isPRReviewComment
    cleanupResult,          \* run(): { shouldDeleteBranch, branchLink }
    prLink,                 \* run(): prLink
    outcome,                \* run(): actionFailed, executionDetails, errorDetails
    bodiesWritten,          \* body written by each run that updated the comment
    updExitCode,            \* exit code of the last run (-1 while running)
    \* ---- agent execution (claude/executor.ts and its entry point) ----
    execConfig,             \* the ClaudeExecutorConfig handed to runClaude
    agentRun,               \* what the agent process and the API call do when started
    execPc,                 \* "idle" | "start" | "exited"
    execResult,             \* what runClaude returned, or that it threw
    executionLog,           \* conclusion written to /tmp/claude-execution.json ("" when none)
    conclusionOutput,       \* output conclusion of the execution step
    executeFailed,          \* core.setFailed message of the execution step ("" when not called)
    \* ---- branch naming (setupBranch, the new branch's name) ----
    nameInputs,             \* two runs of the naming code: entity and clock reading of each
    namePc,                 \* "idle" | "input" | "named"
    generatedNames,         \* the newBranch string of each run, as its characters
    \* ---- local git operations server (mcp/local-git-ops-server.ts) ----
    gitTree,                \* REPO_DIR: files present, files changed since staging, staged paths
    gitCommits,             \* commits created by the server: the paths each one changes
    gitCalls,               \* commit_files / delete_files calls handled, in order
    gitPc                   \* "idle" | "serving"

toolInputs == <<customAllowedTools, customDisallowedTools, actionsPermission,
                useCommitSigning>>

toolVars == <<toolInputs, toolsPc, ALLOWED_TOOLS, DISALLOWED_TOOLS_OUT>>

ctxVars == <<GITEA_API_URL_ENV, GITEA_SERVER_URL_ENV, GITHUB_SERVER_URL_ENV,
             eventName, isPR, entityNumber, baseBranchInput, actorType, prState>>

prepVars == <<pc, permissionLookups, containsTriggerOutput, triggerInput, createRequests,
              forgeComments, commentId, gitHead, gitCheckouts, createdBranches,
              branchInfo, trackingBranchLink, promptCreated, mcpBranchName,
              failedStatus, prepareErrorOutput, exitCode, branchSetupFailure,
              stepsCompleted, permissionLevel>>

updInputs == <<CLAUDE_BRANCH_ENV, BASE_BRANCH_ENV, PREPARE_SUCCESS, PREPARE_ERROR,
               CLAUDE_SUCCESS, outputFile, cleanupObs, prLinkObs, trackingFamily>>

updVars == <<updInputs, commentStore, updPc, runs, fetchRequests, updateRequests,
             branchDeletes, comment, isPRReviewComment, cleanupResult, prLink,
             outcome, bodiesWritten, updExitCode>>

execVars == <<execConfig, agentRun, execPc, execResult, executionLog,
              conclusionOutput, executeFailed>>

nameVars == <<nameInputs, namePc, generatedNames>>

gitVars == <<gitTree, gitCommits, gitCalls, gitPc>>

auxVars == <<nameVars, gitVars>>

vars == <<toolVars, ctxVars, prepVars, updVars, execVars, auxVars>>

\* ---------------------------------------------------------------- bounds
MaxUserTools == 2

\* ---------------------------------------------------------------- helpers
Range(s) == {s[i] : i \in DOMAIN s}

SeqsUpTo(S, n) == UNION {[1..k -> S] : k \in 0..n}

\* ====================================================================
\* Capability gate
\* ====================================================================
BASE_ALLOWED_TOOLS ==
    << "Edit", "MultiEdit", "Glob", "Grep", "LS", "Read", "Write",
       "mcp__local_git_ops__commit_files",
       "mcp__local_git_ops__delete_files",
       "mcp__local_git_ops__push_branch",
       "mcp__local_git_ops__create_pull_request",
       "mcp__local_git_ops__checkout_branch",
       "mcp__local_git_ops__create_branch",
       "mcp__local_git_ops__git_status",
       "mcp__gitea__get_issue",
       "mcp__gitea__get_issue_comments",
       "mcp__gitea__add_issue_comment",
       "mcp__gitea__update_issue_comment",
       "mcp__gitea__delete_issue_comment",
       "mcp__gitea__get_comment",
       "mcp__gitea__list_issues",
       "mcp__gitea__create_issue",
       "mcp__gitea__update_issue",
       "mcp__gitea__get_repository",
       "mcp__gitea__list_pull_requests",
       "mcp__gitea__get_pull_request",
       "mcp__gitea__create_pull_request",
       "mcp__gitea__update_pull_request",
       "mcp__gitea__update_pull_request_comment",
       "mcp__gitea__merge_pull_request",
       "mcp__gitea__update_pull_request_branch",
       "mcp__gitea__check_pull_request_merged",
       "mcp__gitea__set_issue_branch",
       "mcp__gitea__list_branches",
       "mcp__gitea__get_branch",
       "mcp__gitea__delete_file" >>

DISALLOWED_TOOLS == << "WebSearch", "WebFetch" >>

ACTIONS_ALLOWED_TOOLS ==
    << "mcp__github_actions__get_ci_status",
       "mcp__github_actions__get_workflow_run_details",
       "mcp__github_actions__download_job_log" >>

COMMIT_SIGNING_TOOLS ==
    << "mcp__github_file_ops__commit_files",
       "mcp__github_file_ops__delete_files",
       "mcp__github_file_ops__update_claude_comment" >>

\* The default local-git commit and delete tools of BASE_ALLOWED_TOOLS.
LocalGitCommitTools ==
    { "mcp__local_git_ops__commit_files", "mcp__local_git_ops__delete_files" }

\* Raw entries a user may write in allowed_tools / disallowed_tools: exact
\* identifiers, an identifier with surrounding blanks, and a blank entry.
RawTools ==
    { "WebSearch", " WebFetch ", "Bash(npm test)", " ",
      "mcp__github_actions__get_ci_status" }

\* String.prototype.trim on the raw entries above.
Trim(tool) ==
    CASE tool = " WebFetch " -> "WebFetch"
      [] tool = " "          -> ""
      [] OTHER               -> tool

\* normalizeToolList on an array input: trim every entry, drop the empty ones.
normalizeToolList(input) ==
    SelectSeq([i \in DOMAIN input |-> Trim(input[i])], LAMBDA tool : tool # "")

\* The items of a list in order of first occurrence: what iterating a Set
\* yields after its items were added in list order.
FirstOccurrences(list) ==
    LET keep == {i \in DOMAIN list : \A j \in 1..(i - 1) : list[j] # list[i]}
    IN  [k \in 1..Cardinality(keep) |->
            list[CHOOSE i \in keep : Cardinality({j \in keep : j <= i}) = k]]

\* new Set(tools): an insertion-ordered Set, kept as the list of its items.
NewSet(tools) == FirstOccurrences(tools)

\* set.add(tool) for every tool of a list, in list order: the tools the set
\* does not hold yet are appended, each once.
SetAddAll(set, tools) ==
    set \o FirstOccurrences(SelectSeq(tools, LAMBDA tool : tool \notin Range(set)))

\* new Set<string>(BASE_ALLOWED_TOOLS)
BaseToolSet == NewSet(BASE_ALLOWED_TOOLS)

buildAllowedToolsString(custom, includeActionsReadTools, commitSigning) ==
    LET base    == BaseToolSet
        actions == IF includeActionsReadTools
                   THEN SetAddAll(base, ACTIONS_ALLOWED_TOOLS) ELSE base
        signing == IF commitSigning
                   THEN SetAddAll(actions, COMMIT_SIGNING_TOOLS) ELSE actions
    IN  SetAddAll(signing, normalizeToolList(custom))

buildDisallowedToolsStringUnfiltered(customDisallowed, allowed) ==
    DISALLOWED_TOOLS \o normalizeToolList(customDisallowed)

buildDisallowedToolsString(customDisallowed, allowed) ==
    LET allowedList == normalizeToolList(allowed)
        disallowed  == IF Len(allowedList) > 0
                       THEN SelectSeq(DISALLOWED_TOOLS,
                                      LAMBDA tool : tool \notin Range(allowedList))
                       ELSE DISALLOWED_TOOLS
        customList  == normalizeToolList(customDisallowed)
    IN  IF Len(customList) > 0 THEN disallowed \o customList ELSE disallowed

hasActionsReadPermissionAnyEntity == actionsPermission = "read"

hasActionsReadPermission == actionsPermission = "read" /\ isPR

\* ====================================================================
\* Environment and event context
\* ====================================================================
Undefined == "undefined"

GiteaApiUrl    == "https://gitea.example.com/api/v1"
GithubApiUrl   == "https://api.github.com"
GithubEntUrl   == "https://github.com/api/v3"
GiteaServerUrl == "https://gitea.example.com"
GithubServerUrl == "https://github.com"
InternalServerUrl == "http://gitea:3000"

\* JavaScript truthiness of an environment string.
Truthy(str) == str # Undefined /\ str # ""

\* String.prototype.trim on the URL values above (" " is a blank value).
TrimUrl(str) == IF str = " " THEN "" ELSE str

IncludesApiGithubCom(str) == str = GithubApiUrl
IncludesGithubCom(str) == str \in {GithubApiUrl, GithubEntUrl, GithubServerUrl}

ApiUrlValues == {Undefined, "", " ", GiteaApiUrl, GithubApiUrl, GithubEntUrl}

\* Branch names are tuples of their parts; << >> is an absent name.
NoBranch      == << >>
PrHeadRef     == << "feature-x" >>
PrBaseRef     == << "release" >>
DefaultBranch == << "main" >>
ConfiguredBaseBranch == << "develop" >>

EntityNumbers == {7, 123}

\* (eventName, isPR) pairs the context parser produces.
EventKinds ==
    { <<"issues", FALSE>>, <<"issue_comment", FALSE>>, <<"issue_comment", TRUE>>,
      <<"pull_request", TRUE>>, <<"pull_request_review_comment", TRUE>> }

isPullRequestReviewCommentEvent == eventName = "pull_request_review_comment"

InitContext ==
    /\ GITEA_API_URL_ENV \in ApiUrlValues
    /\ GITEA_SERVER_URL_ENV \in {Undefined, GiteaServerUrl}
    /\ GITHUB_SERVER_URL_ENV \in {Undefined, GithubServerUrl}
    /\ \E kind \in EventKinds : eventName = kind[1] /\ isPR = kind[2]
    /\ entityNumber \in EntityNumbers
    /\ baseBranchInput \in {NoBranch, ConfiguredBaseBranch}
    /\ actorType \in {"User", "Bot"}
    /\ prState \in (IF isPR THEN {"OPEN", "CLOSED", "MERGED"} ELSE {"NONE"})

\* ====================================================================
\* Prepare pipeline (entrypoints/prepare.ts)
\* ====================================================================
NoBranchInfo ==
    [returned |-> FALSE, baseBranch |-> NoBranch, claudeBranch |-> NoBranch,
     currentBranch |-> NoBranch]

NoTriggerInput ==
    [evaluated |-> FALSE, promptConfigured |-> FALSE, phraseInText |-> FALSE,
     fieldMatches |-> FALSE]

InitPipeline ==
    /\ pc = "checkWritePermissions"
    /\ permissionLookups = 0
    /\ permissionLevel = ""
    /\ containsTriggerOutput = Undefined
    /\ triggerInput = NoTriggerInput
    /\ createRequests = << >>
    /\ forgeComments = << >>
    /\ commentId = 0
    /\ gitHead = DefaultBranch
    /\ gitCheckouts = << >>
    /\ createdBranches = {}
    /\ branchSetupFailure = ""
    /\ stepsCompleted = << >>
    /\ branchInfo = NoBranchInfo
    /\ trackingBranchLink = NoBranch
    /\ promptCreated = FALSE
    /\ mcpBranchName = NoBranch
    /\ failedStatus = ""
    /\ prepareErrorOutput = ""
    /\ exitCode = -1

\* run(), catch block: setFailed, prepare_error output, process.exit(1).
RunCatch(errorMessage) ==
    /\ pc' = "exit1"
    /\ UNCHANGED stepsCompleted
    /\ failedStatus' = "Prepare step failed"
    /\ prepareErrorOutput' = errorMessage
    /\ exitCode' = 1

\* process.exit(1) called by a step itself, outside run()'s catch block.
ProcessExit(status) ==
    /\ pc' = "exit1"
    /\ UNCHANGED stepsCompleted
    /\ failedStatus' = status
    /\ UNCHANGED prepareErrorOutput
    /\ exitCode' = 1

Continue(step) ==
    /\ pc' = step
    /\ stepsCompleted' = Append(stepsCompleted, pc)
    /\ UNCHANGED <<failedStatus, prepareErrorOutput, exitCode>>

\* ---- step 4: checkWritePermissions --------------------------------
\* The base URL of the API client: the configured API URL, else derived
\* from the server URL.
\* Variant: the platform-provided URL is preferred to the explicit override.
getServerUrlPlatformFirst ==
    IF Truthy(GITHUB_SERVER_URL_ENV) THEN GITHUB_SERVER_URL_ENV
    ELSE IF Truthy(GITEA_SERVER_URL_ENV) THEN GITEA_SERVER_URL_ENV
    ELSE GithubServerUrl

getServerUrl ==
    IF Truthy(GITEA_SERVER_URL_ENV) THEN GITEA_SERVER_URL_ENV
    ELSE IF Truthy(GITHUB_SERVER_URL_ENV) THEN GITHUB_SERVER_URL_ENV
    ELSE GithubServerUrl

deriveApiUrl(serverUrl) ==
    IF IncludesGithubCom(serverUrl) THEN GithubApiUrl ELSE GiteaApiUrl

getBaseUrl ==
    IF Truthy(GITEA_API_URL_ENV) THEN GITEA_API_URL_ENV
    ELSE deriveApiUrl(getServerUrl)

\* isGitea as checkWritePermissions computes it.
PermissionsIsGitea ==
    LET giteaApiUrl == TrimUrl(GITEA_API_URL_ENV)
    IN  /\ Truthy(giteaApiUrl)
        /\ giteaApiUrl # ""
        /\ ~IncludesApiGithubCom(giteaApiUrl)
        /\ ~IncludesGithubCom(giteaApiUrl)

\* TRUE when checkWritePermissions returns true without a lookup.
PermissionsAssumed ==
    LET apiUrl == getBaseUrl
    IN  \/ PermissionsIsGitea
        \/ (Truthy(apiUrl) /\ ~IncludesApiGithubCom(apiUrl) /\ ~IncludesGithubCom(apiUrl))
        \/ (Truthy(apiUrl) /\ apiUrl # GithubApiUrl)

PermissionResponses == {"admin", "write", "read", "none", "error"}

HasAnyPermission(response) == response \in {"admin", "write", "read"}

\* permissionLevel === "admin" || permissionLevel === "write"
HasWritePermissions(response) == response \in {"admin", "write"}

CheckWritePermissions ==
    /\ pc = "checkWritePermissions"
    /\ IF PermissionsAssumed
       THEN /\ Continue("checkTriggerAction")
            /\ UNCHANGED <<permissionLookups, permissionLevel>>
       ELSE /\ permissionLookups' = permissionLookups + 1
            /\ \E response \in PermissionResponses :
                 /\ permissionLevel' = response
                 /\ CASE response = "error" -> RunCatch("Failed to check permissions")
                      [] HasWritePermissions(response) -> Continue("checkTriggerAction")
                      [] OTHER -> RunCatch("Actor does not have write permissions")
    /\ UNCHANGED <<containsTriggerOutput, triggerInput, createRequests, forgeComments, commentId,
                   gitHead, gitCheckouts, createdBranches,
                   branchSetupFailure, branchInfo,
                   trackingBranchLink, promptCreated, mcpBranchName>>
    /\ UNCHANGED <<toolVars, ctxVars, updVars, execVars, auxVars>>

\* ---- step 5: checkTriggerAction and the contains_trigger output -----
\* The trigger evaluation's inputs.  phraseInText: the trigger phrase occurs
\* in the text the event carries (the comment body on a comment event, the
\* issue/PR body or title otherwise).  fieldMatches: the event is an
\* assignment or a label event whose assignee or label equals the configured
\* one.  promptConfigured: a directPrompt/overridePrompt input is set.
IsCommentEvent ==
    eventName \in {"issue_comment", "pull_request_review_comment"}

TriggerInputs ==
    [evaluated : {TRUE}, promptConfigured : BOOLEAN, phraseInText : BOOLEAN,
     fieldMatches : IF eventName = "issues" THEN BOOLEAN ELSE {FALSE}]

\* github/validation/trigger is not part of the sources: the evaluation is
\* the one the specification's Trigger Evaluator contract describes.
checkTriggerAction(input) ==
    \/ input.promptConfigured
    \/ input.phraseInText
    \/ input.fieldMatches

\* Variant: the pipeline goes on whatever the evaluation returned.
AfterTriggerCheckNeverSkips(containsTrigger) == "checkHumanActor"

\* if (!containsTrigger) { ...; return; }
AfterTriggerCheck(containsTrigger) ==
    IF containsTrigger THEN "checkHumanActor" ELSE "skipped"

CheckTriggerAction ==
    /\ pc = "checkTriggerAction"
    /\ \E input \in TriggerInputs :
         LET containsTrigger == checkTriggerAction(input)
         IN  /\ triggerInput' = input
             /\ containsTriggerOutput' = IF containsTrigger THEN "true" ELSE "false"
             /\ Continue(AfterTriggerCheck(containsTrigger))
    /\ UNCHANGED <<permissionLookups, permissionLevel, createRequests, forgeComments, commentId,
                   gitHead, gitCheckouts, createdBranches,
                   branchSetupFailure, branchInfo,
                   trackingBranchLink, promptCreated, mcpBranchName>>
    /\ UNCHANGED <<toolVars, ctxVars, updVars, execVars, auxVars>>

\* ---- step 6: checkHumanActor ---------------------------------------
\* isGitea as checkHumanActor computes it: actor-type checking is skipped.
ActorIsGitea ==
    Truthy(GITEA_API_URL_ENV) /\ ~IncludesApiGithubCom(GITEA_API_URL_ENV)

\* The try block throws when the request fails and when the type is not "User".
ActorTryThrows(response) == response = "error" \/ response # "User"

\* The catch block: it warns, logs "Assuming human actor" and falls off the
\* end of the function; nothing is rethrown.
ActorCatchBlock == "returns"

checkHumanActorOutcome(response) ==
    IF ActorTryThrows(response) THEN ActorCatchBlock ELSE "returns"

CheckHumanActor ==
    /\ pc = "checkHumanActor"
    /\ IF ActorIsGitea
       THEN Continue("createInitialComment")
       ELSE \E response \in {actorType, "error"} :
              IF checkHumanActorOutcome(response) = "throws"
              THEN RunCatch("Workflow initiated by non-human actor")
              ELSE Continue("createInitialComment")
    /\ UNCHANGED <<permissionLookups, permissionLevel, containsTriggerOutput, triggerInput, createRequests,
                   forgeComments, commentId, gitHead, gitCheckouts, createdBranches,
                   branchSetupFailure,
                   branchInfo, trackingBranchLink, promptCreated, mcpBranchName>>
    /\ UNCHANGED <<toolVars, ctxVars, updVars, execVars, auxVars>>

\* ---- step 7: createInitialComment ---------------------------------
\* Endpoint of the first create request.
PrimaryEndpoint ==
    IF isPullRequestReviewCommentEvent THEN "review_reply" ELSE "issue_comment"

EndpointFamily(endpoint) ==
    IF endpoint = "review_reply" THEN "review" ELSE "issue"

NewComment(comments, endpoint) ==
    [id |-> Len(comments) + 1, family |-> EndpointFamily(endpoint)]

CreateRequestsFallbackOnPrimary(primaryOk, appendOk, fallbackOk) ==
    IF primaryOk /\ appendOk
    THEN << [endpoint |-> PrimaryEndpoint, ok |-> TRUE] >>
    ELSE << [endpoint |-> PrimaryEndpoint, ok |-> primaryOk],
            [endpoint |-> PrimaryEndpoint, ok |-> fallbackOk] >>

\* The create requests createInitialComment issues, given the outcome of the
\* primary request, of the append to the job output file after it, and of
\* the fallback request: the catch block covers the whole try block, so the
\* fallback runs when the primary request fails and when the append fails.
CreateRequestsIssued(primaryOk, appendOk, fallbackOk) ==
    IF primaryOk /\ appendOk
    THEN << [endpoint |-> PrimaryEndpoint, ok |-> TRUE] >>
    ELSE << [endpoint |-> PrimaryEndpoint, ok |-> primaryOk],
            [endpoint |-> "issue_comment", ok |-> fallbackOk] >>

RECURSIVE CommentsCreated(_, _)
CommentsCreated(comments, requests) ==
    IF requests = << >> THEN comments
    ELSE CommentsCreated(
             IF Head(requests).ok
             THEN Append(comments, NewComment(comments, Head(requests).endpoint))
             ELSE comments,
             Tail(requests))

CreateInitialComment ==
    /\ pc = "createInitialComment"
    /\ \E primaryOk \in BOOLEAN, appendOk \in BOOLEAN,
          fallbackOk \in BOOLEAN, fallbackAppendOk \in BOOLEAN :
         LET requests == CreateRequestsIssued(primaryOk, appendOk, fallbackOk)
             comments == CommentsCreated(forgeComments, requests)
             returned == \/ (primaryOk /\ appendOk)
                         \/ (fallbackOk /\ fallbackAppendOk)
         IN  /\ createRequests' = createRequests \o requests
             /\ forgeComments' = comments
             /\ IF returned
                THEN /\ commentId' = comments[Len(comments)].id
                     /\ Continue("fetchGitHubData")
                ELSE /\ UNCHANGED commentId
                     /\ RunCatch("Error creating fallback comment")
    /\ UNCHANGED <<permissionLookups, permissionLevel, containsTriggerOutput, triggerInput, gitHead, gitCheckouts,
                   createdBranches,
                   branchSetupFailure, branchInfo, trackingBranchLink, promptCreated,
                   mcpBranchName>>
    /\ UNCHANGED <<toolVars, ctxVars, updVars, execVars, auxVars>>

\* ---- step 8: fetchGitHubData ---------------------------------------
FetchGitHubData ==
    /\ pc = "fetchGitHubData"
    /\ \E ok \in BOOLEAN :
         IF ok THEN Continue("setupBranch")
         ELSE RunCatch("Failed to fetch data")
    /\ UNCHANGED <<permissionLookups, permissionLevel, containsTriggerOutput, triggerInput, createRequests,
                   forgeComments, commentId, gitHead, gitCheckouts, createdBranches,
                   branchSetupFailure,
                   branchInfo, trackingBranchLink, promptCreated, mcpBranchName>>
    /\ UNCHANGED <<toolVars, ctxVars, updVars, execVars, auxVars>>

\* ---- step 9: setupBranch (github/operations/branch.ts) ------------
MaxTimestamp == 2

IsOpenPR == isPR /\ prState \notin {"CLOSED", "MERGED"}

\* `claude/${entityType}-${entityNumber}-${timestamp}`
NewBranchName(timestamp) ==
    << "claude", IF isPR THEN "pr" ELSE "issue", entityNumber, timestamp >>

OpenPRBranchInfoDefaultBase ==
    [returned |-> TRUE, baseBranch |-> DefaultBranch, claudeBranch |-> NoBranch,
     currentBranch |-> PrHeadRef]

\* The BranchInfo returned for an open PR.
OpenPRBranchInfo ==
    [returned |-> TRUE, baseBranch |-> PrBaseRef, claudeBranch |-> NoBranch,
     currentBranch |-> PrHeadRef]

\* "Determine source branch": the configured base branch, else the default
\* branch reported by the repository lookup.
SourceBranch(defaultBranch) ==
    IF baseBranchInput # NoBranch THEN baseBranchInput ELSE defaultBranch

NewBranchInfoOnSource(sourceBranch, newBranch) ==
    [returned |-> TRUE, baseBranch |-> sourceBranch, claudeBranch |-> newBranch,
     currentBranch |-> sourceBranch]

\* The BranchInfo returned after a new branch was created.
NewBranchInfo(sourceBranch, newBranch) ==
    [returned |-> TRUE, baseBranch |-> sourceBranch, claudeBranch |-> newBranch,
     currentBranch |-> newBranch]

\* The git commands of new-branch creation, in the order they are awaited.
NewBranchGitSteps ==
    << "status", "fetch", "checkout", "pull", "checkout -b", "show-current" >>

StepIndex(step) == CHOOSE i \in DOMAIN NewBranchGitSteps : NewBranchGitSteps[i] = step

\* TRUE when `step` completed, given the index of the first failing command
\* (0: none failed).
Completed(step, failAt) == failAt = 0 \/ StepIndex(step) < failAt

NewBranchCreatedUnverified(failAt, reportedOk) == failAt = 0

\* TRUE when every git command succeeded and `git branch --show-current`
\* reported the new branch name.
NewBranchCreated(failAt, reportedOk) == failAt = 0 /\ reportedOk

\* The command that made new-branch creation fail ("" when none did).
BranchSetupFailure(failAt, reportedOk) ==
    IF failAt # 0 THEN NewBranchGitSteps[failAt]
    ELSE IF ~reportedOk THEN "branch name mismatch"
    ELSE ""

AfterSetupBranchAlwaysRewrites(info) == "updateTrackingComment"

\* run(), step 10: the branch-link rewrite runs only with a claudeBranch.
AfterSetupBranch(info) ==
    IF info.claudeBranch # NoBranch THEN "updateTrackingComment" ELSE "createPrompt"

\* Open PR: shallow fetch and checkout of the head branch, outside any try block.
SetupBranchOpenPR ==
    /\ pc = "setupBranch"
    /\ IsOpenPR
    /\ \E fetchOk \in BOOLEAN, checkoutOk \in BOOLEAN :
         IF fetchOk /\ checkoutOk
         THEN /\ gitHead' = PrHeadRef
              /\ gitCheckouts' = Append(gitCheckouts, PrHeadRef)
              /\ branchInfo' = OpenPRBranchInfo
              /\ Continue(AfterSetupBranch(OpenPRBranchInfo))
         ELSE /\ UNCHANGED <<gitHead, gitCheckouts, branchInfo>>
              /\ RunCatch("git command failed")
    /\ UNCHANGED <<permissionLookups, permissionLevel, containsTriggerOutput, triggerInput, createRequests,
                   forgeComments, commentId, createdBranches,
                   branchSetupFailure, trackingBranchLink,
                   promptCreated, mcpBranchName>>
    /\ UNCHANGED <<toolVars, ctxVars, updVars, execVars, auxVars>>

\* Issue, or closed/merged PR, when the repository lookup for the default
\* branch fails: the error is thrown before the try block.
SetupBranchRepoLookupFails ==
    /\ pc = "setupBranch"
    /\ ~IsOpenPR
    /\ baseBranchInput = NoBranch
    /\ RunCatch("getRepo failed")
    /\ UNCHANGED <<permissionLookups, permissionLevel, containsTriggerOutput, triggerInput, createRequests,
                   forgeComments, commentId, gitHead, gitCheckouts, createdBranches,
                   branchSetupFailure,
                   branchInfo, trackingBranchLink, promptCreated, mcpBranchName>>
    /\ UNCHANGED <<toolVars, ctxVars, updVars, execVars, auxVars>>

\* Issue, or closed/merged PR: create the new branch with local git commands.
SetupBranchNew ==
    /\ pc = "setupBranch"
    /\ ~IsOpenPR
    /\ \E timestamp \in 1..MaxTimestamp,
          failAt \in 0..Len(NewBranchGitSteps),
          reportedOk \in BOOLEAN :
         LET sourceBranch == SourceBranch(DefaultBranch)
             newBranch    == NewBranchName(timestamp)
             afterSource  == IF Completed("checkout", failAt)
                             THEN Append(gitCheckouts, sourceBranch)
                             ELSE gitCheckouts
         IN  /\ gitHead' = IF Completed("checkout -b", failAt) THEN newBranch
                           ELSE IF Completed("checkout", failAt) THEN sourceBranch
                           ELSE gitHead
             /\ gitCheckouts' = IF Completed("checkout -b", failAt)
                                THEN Append(afterSource, newBranch)
                                ELSE afterSource
             /\ createdBranches' = IF Completed("checkout -b", failAt)
                                   THEN createdBranches \cup {newBranch}
                                   ELSE createdBranches
             /\ branchSetupFailure' = BranchSetupFailure(failAt, reportedOk)
             /\ IF NewBranchCreated(failAt, reportedOk)
                THEN /\ branchInfo' = NewBranchInfo(sourceBranch, newBranch)
                     /\ Continue(AfterSetupBranch(NewBranchInfo(sourceBranch, newBranch)))
                ELSE /\ UNCHANGED branchInfo
                     /\ ProcessExit("")
    /\ UNCHANGED <<permissionLookups, permissionLevel, containsTriggerOutput, triggerInput, createRequests,
                   forgeComments, commentId, trackingBranchLink, promptCreated,
                   mcpBranchName>>
    /\ UNCHANGED <<toolVars, ctxVars, updVars, execVars, auxVars>>

\* ---- step 10: updateTrackingComment (only with a claude branch) ----
UpdateTrackingComment ==
    /\ pc = "updateTrackingComment"
    /\ \E ok \in BOOLEAN :
         IF ok
         THEN /\ trackingBranchLink' = branchInfo.claudeBranch
              /\ Continue("createPrompt")
         ELSE /\ UNCHANGED trackingBranchLink
              /\ RunCatch("Failed to update comment")
    /\ UNCHANGED <<permissionLookups, permissionLevel, containsTriggerOutput, triggerInput, createRequests,
                   forgeComments, commentId, gitHead, gitCheckouts, createdBranches,
                   branchSetupFailure,
                   branchInfo, promptCreated, mcpBranchName>>
    /\ UNCHANGED <<toolVars, ctxVars, updVars, execVars, auxVars>>

\* ---- step 11: createPrompt -----------------------------------------
CreatePrompt ==
    /\ pc = "createPrompt"
    /\ \E ok \in BOOLEAN :
         IF ok
         THEN /\ promptCreated' = TRUE
              /\ ALLOWED_TOOLS' = buildAllowedToolsString(customAllowedTools,
                                      hasActionsReadPermission, useCommitSigning)
              /\ DISALLOWED_TOOLS_OUT' = buildDisallowedToolsString(
                                      customDisallowedTools, customAllowedTools)
              /\ toolsPc' = "resolved"
              /\ Continue("prepareMcpConfig")
         ELSE /\ UNCHANGED <<promptCreated, ALLOWED_TOOLS, DISALLOWED_TOOLS_OUT, toolsPc>>
              /\ ProcessExit("Create prompt failed")
    /\ UNCHANGED <<permissionLookups, permissionLevel, containsTriggerOutput, triggerInput, createRequests,
                   forgeComments, commentId, gitHead, gitCheckouts, createdBranches,
                   branchSetupFailure,
                   branchInfo, trackingBranchLink, mcpBranchName>>
    /\ UNCHANGED <<toolInputs, ctxVars, updVars, execVars, auxVars>>

\* ---- step 12: prepareMcpConfig and the mcp_config output ------------
PrepareMcpConfig ==
    /\ pc = "prepareMcpConfig"
    /\ \E ok \in BOOLEAN :
         IF ok
         THEN /\ mcpBranchName' = branchInfo.currentBranch
              /\ pc' = "done"
              /\ stepsCompleted' = Append(stepsCompleted, pc)
              /\ exitCode' = 0
              /\ UNCHANGED <<failedStatus, prepareErrorOutput>>
         ELSE /\ UNCHANGED mcpBranchName
              /\ ProcessExit("Install MCP server failed")
    /\ UNCHANGED <<permissionLookups, permissionLevel, containsTriggerOutput, triggerInput, createRequests,
                   forgeComments, commentId, gitHead, gitCheckouts, createdBranches,
                   branchSetupFailure,
                   branchInfo, trackingBranchLink, promptCreated>>
    /\ UNCHANGED <<toolVars, ctxVars, updVars, execVars, auxVars>>

\* ====================================================================
\* Final update (entrypoints/update-comment-link.ts)
\* ====================================================================
NoLink == << >>

\* What a branch lookup finds: a tip SHA, no such branch (404 from the API,
\* no ref in the local repository), or a failure (a non-404 API error, a
\* failing rev-parse on a ref that exists).
Shas == {"sha1", "sha2"}

BranchLookups == Shas \cup {"notfound", "error"}

BaseLookups == {"sha1", "notfound", "error"}

BranchObservations == [claude : BranchLookups, base : BaseLookups]

NoObservation == [claude |-> "notfound", base |-> "notfound"]

\* const baseBranch = process.env.BASE_BRANCH || "main"
UpdateBaseBranch == IF BASE_BRANCH_ENV # NoBranch THEN BASE_BRANCH_ENV ELSE << "main" >>

\* `${serverUrl}/${owner}/${repo}/actions/runs/${process.env.GITHUB_RUN_ID}`
JobUrl == << getServerUrl, "actions/runs" >>

\* `${GITEA_SERVER_URL}/${owner}/${repo}/src/branch/${claudeBranch}` as the
\* cleanup writes it, in "\n[View branch](...)".
ViewBranchLink(claudeBranch) == << getServerUrl, "src/branch", claudeBranch, "" >>

\* createBranchLink: the same URL with a trailing "/".
createBranchLink(branchName) == << getServerUrl, "src/branch", branchName, "/" >>

\* `${serverUrl}/${owner}/${repo}/compare/${baseBranch}...${claudeBranch}?quick_pull=1&title=...`
\* in "\n[Create a PR](...)".
CreatePRLink(baseBranch, claudeBranch) ==
    << getServerUrl, "compare", baseBranch, claudeBranch,
       IF isPR THEN "PR" ELSE "Issue", entityNumber >>

\* ---- comment bodies ------------------------------------------------
NoComment ==
    [author |-> "none", spinner |-> FALSE, header |-> "", executionDetails |-> "",
     errorDetails |-> "", jobUrl |-> NoLink, branchLink |-> NoLink,
     prLink |-> NoLink, text |-> ""]

ForeignComment == [NoComment EXCEPT !.author = "user", !.text = "another comment"]

\* createCommentBody(jobRunLink, branchLink): the body prepare leaves behind.
createCommentBody(jobRunUrl, branchLink) ==
    [author |-> "claude", spinner |-> TRUE, header |-> "working",
     executionDetails |-> "", errorDetails |-> "", jobUrl |-> jobRunUrl,
     branchLink |-> branchLink, prLink |-> NoLink,
     text |-> "I'll analyze this and get back to you."]

\* updateCommentBody(input): a full rewrite of the body. The spinner goes, the
\* header states the outcome, the job-run link and the branch link are the
\* ones passed in, and the text is carried over; a create-PR link already in
\* the body is kept when none is passed in.
updateCommentBody(input) ==
    [author |-> input.currentBody.author,
     spinner |-> FALSE,
     header |-> IF input.actionFailed THEN "failure" ELSE "success",
     executionDetails |-> input.executionDetails,
     errorDetails |-> input.errorDetails,
     jobUrl |-> input.jobUrl,
     branchLink |-> input.branchLink,
     prLink |-> IF input.prLink # NoLink THEN input.prLink
                ELSE input.currentBody.prLink,
     text |-> input.currentBody.text]

\* ---- comment requests ----------------------------------------------
\* GET .../pulls/comments/{id} for a review-comment event, else
\* GET .../issues/comments/{id}.
FetchEndpoint == IF isPullRequestReviewCommentEvent THEN "pulls" ELSE "issues"

UpdateEndpointIssuesOnly(fetchedAsReview) == "issues"

\* PATCH .../pulls/comments/{id} when the comment was fetched as a review
\* comment, else updateIssueComment: PATCH .../issues/comments/{id}.
UpdateEndpoint(fetchedAsReview) == IF fetchedAsReview THEN "pulls" ELSE "issues"

\* The id namespace an endpoint reads and writes.
CommentNamespace(endpoint) == IF endpoint = "pulls" THEN "review" ELSE "issue"

PatchedBodyAppended(storedBody, updatedBody) ==
    [updatedBody EXCEPT !.text = "previous body and update"]

\* The body stored after a PATCH with { body: updatedBody }.
PatchedBody(storedBody, updatedBody) == updatedBody

\* ---- checkAndDeleteEmptyBranch (github/operations/branch-cleanup.ts) -
\* isGitea as the cleanup computes it.
CleanupIsGitea ==
    LET giteaApiUrl == TrimUrl(GITEA_API_URL_ENV)
    IN  /\ Truthy(giteaApiUrl)
        /\ giteaApiUrl # ""
        /\ ~IncludesApiGithubCom(giteaApiUrl)
        /\ ~IncludesGithubCom(giteaApiUrl)

\* getBranchSha: the SHA, or null ("") when the ref is missing or rev-parse fails.
getBranchSha(lookup) == IF lookup \in Shas THEN lookup ELSE ""

\* branchExists || remoteBranchExists
branchExists(lookup) == lookup # "notfound"

branchHasChanges(observation) ==
    LET branchSha == getBranchSha(observation.claude)
        baseSha   == getBranchSha(observation.base)
    IN  IF branchSha = "" \/ baseSha = ""
        THEN [hasChanges |-> FALSE, branchSha |-> branchSha, baseSha |-> baseSha]
        ELSE [hasChanges |-> branchSha # baseSha, branchSha |-> branchSha,
              baseSha |-> baseSha]

\* Gitea mode: local git commands.
CleanupLocalGit(claudeBranch, observation) ==
    LET changes == branchHasChanges(observation)
    IN  IF changes.branchSha # "" /\ changes.baseSha # ""
        THEN IF changes.hasChanges
             THEN [shouldDeleteBranch |-> FALSE, branchLink |-> ViewBranchLink(claudeBranch)]
             ELSE [shouldDeleteBranch |-> TRUE, branchLink |-> NoLink]
        ELSE IF branchExists(observation.claude)
             THEN [shouldDeleteBranch |-> FALSE, branchLink |-> ViewBranchLink(claudeBranch)]
             ELSE [shouldDeleteBranch |-> FALSE, branchLink |-> NoLink]

\* The status of the error the two getBranch calls throw, "" when both answer.
GetBranchError(observation) ==
    IF observation.claude \notin Shas THEN observation.claude
    ELSE IF observation.base \notin Shas THEN observation.base
    ELSE ""

CleanupApiNoLinkOnError(claudeBranch, observation) ==
    IF GetBranchError(observation) = ""
    THEN IF observation.claude # observation.base
         THEN [shouldDeleteBranch |-> FALSE, branchLink |-> ViewBranchLink(claudeBranch)]
         ELSE [shouldDeleteBranch |-> TRUE, branchLink |-> NoLink]
    ELSE [shouldDeleteBranch |-> FALSE, branchLink |-> NoLink]

\* GitHub mode: API calls.
CleanupApi(claudeBranch, observation) ==
    IF GetBranchError(observation) = ""
    THEN IF observation.claude # observation.base
         THEN [shouldDeleteBranch |-> FALSE, branchLink |-> ViewBranchLink(claudeBranch)]
         ELSE [shouldDeleteBranch |-> TRUE, branchLink |-> NoLink]
    ELSE IF GetBranchError(observation) = "notfound"
         THEN [shouldDeleteBranch |-> FALSE, branchLink |-> NoLink]
         ELSE [shouldDeleteBranch |-> FALSE, branchLink |-> ViewBranchLink(claudeBranch)]

checkAndDeleteEmptyBranch(claudeBranch, observation) ==
    IF claudeBranch = NoBranch
    THEN [shouldDeleteBranch |-> FALSE, branchLink |-> NoLink]
    ELSE IF CleanupIsGitea THEN CleanupLocalGit(claudeBranch, observation)
         ELSE CleanupApi(claudeBranch, observation)

BranchDeleteIssued(shouldDeleteBranch, claudeBranch) ==
    IF shouldDeleteBranch THEN << claudeBranch >> ELSE << >>

\* "Delete the branch if it has no commits": the block only logs that the
\* deletion is skipped.
BranchDeleteOperations(shouldDeleteBranch, claudeBranch) == << >>

\* ---- the create-PR link (run(), "Check if we need to add PR URL") ----
\* currentBody.match(prUrlPattern): a compare URL on this server from the
\* base branch.
containsPRUrl(currentBody, baseBranch) ==
    /\ currentBody.prLink # NoLink
    /\ currentBody.prLink[1] = getServerUrl
    /\ currentBody.prLink[2] = "compare"
    /\ currentBody.prLink[3] = baseBranch

PrLinkLocalGit(baseBranch, claudeBranch, observation) ==
    LET changes == branchHasChanges(observation)
    IN  IF changes.branchSha # "" /\ changes.baseSha # ""
        THEN IF changes.hasChanges THEN CreatePRLink(baseBranch, claudeBranch)
             ELSE NoLink
        ELSE IF branchExists(observation.claude)
             THEN CreatePRLink(baseBranch, claudeBranch)
             ELSE NoLink

PrLinkApi(baseBranch, claudeBranch, observation) ==
    IF GetBranchError(observation) = ""
    THEN IF observation.claude # observation.base
         THEN CreatePRLink(baseBranch, claudeBranch)
         ELSE NoLink
    ELSE IF GetBranchError(observation) = "notfound" THEN NoLink
         ELSE CreatePRLink(baseBranch, claudeBranch)

ComputePrLinkIgnoringCleanup(currentBody, claudeBranch, baseBranch, shouldDeleteBranch, observation) ==
    IF claudeBranch # NoBranch
    THEN IF containsPRUrl(currentBody, baseBranch) THEN NoLink
         ELSE IF CleanupIsGitea
              THEN PrLinkLocalGit(baseBranch, claudeBranch, observation)
              ELSE PrLinkApi(baseBranch, claudeBranch, observation)
    ELSE NoLink

ComputePrLink(currentBody, claudeBranch, baseBranch, shouldDeleteBranch, observation) ==
    IF claudeBranch # NoBranch /\ ~shouldDeleteBranch
    THEN IF containsPRUrl(currentBody, baseBranch) THEN NoLink
         ELSE IF CleanupIsGitea
              THEN PrLinkLocalGit(baseBranch, claudeBranch, observation)
              ELSE PrLinkApi(baseBranch, claudeBranch, observation)
    ELSE NoLink

\* ---- the outcome (run(), "Check if action failed") -------------------
NoOutcome == [actionFailed |-> FALSE, executionDetails |-> "", errorDetails |-> ""]

OutputFileStates == {"unset", "unreadable", "details", "no details"}

ActionOutcome ==
    LET prepareSuccess == PREPARE_SUCCESS # "false"
    IN  IF ~prepareSuccess /\ Truthy(PREPARE_ERROR)
        THEN [actionFailed |-> TRUE, executionDetails |-> "",
              errorDetails |-> PREPARE_ERROR]
        ELSE IF outputFile = "unreadable"
             THEN [actionFailed |-> CLAUDE_SUCCESS = "false", executionDetails |-> "",
                   errorDetails |-> ""]
             ELSE [actionFailed |-> ~(CLAUDE_SUCCESS # "false"),
                   executionDetails |-> IF outputFile = "details"
                                        THEN "cost and duration" ELSE "",
                   errorDetails |-> ""]

\* ---- run() ---------------------------------------------------------
MaxRuns == 2

\* The update step is not running.
IdleUpdate ==
    /\ CLAUDE_BRANCH_ENV = NoBranch
    /\ BASE_BRANCH_ENV = NoBranch
    /\ PREPARE_SUCCESS = "true"
    /\ PREPARE_ERROR = Undefined
    /\ CLAUDE_SUCCESS = "true"
    /\ outputFile = "unset"
    /\ cleanupObs = NoObservation
    /\ prLinkObs = NoObservation
    /\ trackingFamily = "issue"
    /\ commentStore = [review |-> NoComment, issue |-> NoComment]
    /\ updPc = "idle"
    /\ runs = 0
    /\ fetchRequests = << >>
    /\ updateRequests = << >>
    /\ branchDeletes = << >>
    /\ comment = NoComment
    /\ isPRReviewComment = FALSE
    /\ cleanupResult = [shouldDeleteBranch |-> FALSE, branchLink |-> NoLink]
    /\ prLink = NoLink
    /\ outcome = NoOutcome
    /\ bodiesWritten = << >>
    /\ updExitCode = -1

UpdateExit(status) ==
    /\ updPc' = IF status = 0 THEN "exit0" ELSE "exit1"
    /\ updExitCode' = status

\* How the forge answers a comment request when it is reachable: with the
\* stored comment, or with an error status.
ForgeResponses == {"ok", "error"}

\* customRequest("GET", .../{endpoint}/comments/{id}): the stored comment, or
\* a thrown error when the request fails or no comment has that id.
GetComment(endpoint, response) ==
    LET stored == commentStore[CommentNamespace(endpoint)]
    IN  IF response = "ok" /\ stored.author # "none"
        THEN [ok |-> TRUE, data |-> stored]
        ELSE [ok |-> FALSE, data |-> NoComment]

\* "let comment; try { if (review event) GET pulls...; if (!comment) GET
\* issues... } catch { debug output; throw finalError }"
FetchComment ==
    /\ updPc = "fetch"
    /\ \E reviewResponse \in ForgeResponses, issueResponse \in ForgeResponses :
         LET first  == GetComment("pulls", reviewResponse)
             second == GetComment("issues", issueResponse)
             firstRequest ==
                 IF isPullRequestReviewCommentEvent
                 THEN << [endpoint |-> "pulls", id |-> commentId, ok |-> first.ok] >>
                 ELSE << >>
             firstThrows == isPullRequestReviewCommentEvent /\ ~first.ok
             afterFirst == IF isPullRequestReviewCommentEvent /\ first.ok
                           THEN first.data ELSE NoComment
             secondIssued == ~firstThrows /\ afterFirst = NoComment
             secondRequest ==
                 IF secondIssued
                 THEN << [endpoint |-> "issues", id |-> commentId, ok |-> second.ok] >>
                 ELSE << >>
         IN  /\ fetchRequests' = fetchRequests \o firstRequest \o secondRequest
             /\ IF firstThrows \/ (secondIssued /\ ~second.ok)
                THEN /\ UNCHANGED <<comment, isPRReviewComment>>
                     /\ UpdateExit(1)
                ELSE /\ comment' = IF secondIssued THEN second.data ELSE afterFirst
                     /\ isPRReviewComment' = ~secondIssued
                     /\ updPc' = "checkAndDeleteEmptyBranch"
                     /\ UNCHANGED updExitCode
    /\ UNCHANGED <<updInputs, commentStore, runs, updateRequests, branchDeletes,
                   cleanupResult, prLink, outcome, bodiesWritten>>
    /\ UNCHANGED <<toolVars, ctxVars, prepVars, execVars, auxVars>>

CheckAndDeleteEmptyBranch ==
    /\ updPc = "checkAndDeleteEmptyBranch"
    /\ LET result == checkAndDeleteEmptyBranch(CLAUDE_BRANCH_ENV, cleanupObs)
       IN  /\ cleanupResult' = result
           /\ branchDeletes' = branchDeletes \o
                  BranchDeleteOperations(result.shouldDeleteBranch, CLAUDE_BRANCH_ENV)
    /\ updPc' = "prLink"
    /\ UNCHANGED <<updInputs, commentStore, runs, fetchRequests, updateRequests,
                   comment, isPRReviewComment, prLink, outcome, bodiesWritten,
                   updExitCode>>
    /\ UNCHANGED <<toolVars, ctxVars, prepVars, execVars, auxVars>>

CheckPrLink ==
    /\ updPc = "prLink"
    /\ prLink' = ComputePrLink(comment, CLAUDE_BRANCH_ENV, UpdateBaseBranch,
                               cleanupResult.shouldDeleteBranch, prLinkObs)
    /\ updPc' = "outcome"
    /\ UNCHANGED <<updInputs, commentStore, runs, fetchRequests, updateRequests,
                   branchDeletes, comment, isPRReviewComment, cleanupResult, outcome,
                   bodiesWritten, updExitCode>>
    /\ UNCHANGED <<toolVars, ctxVars, prepVars, execVars, auxVars>>

ReadOutcome ==
    /\ updPc = "outcome"
    /\ outcome' = ActionOutcome
    /\ updPc' = "update"
    /\ UNCHANGED <<updInputs, commentStore, runs, fetchRequests, updateRequests,
                   branchDeletes, comment, isPRReviewComment, cleanupResult, prLink,
                   bodiesWritten, updExitCode>>
    /\ UNCHANGED <<toolVars, ctxVars, prepVars, execVars, auxVars>>

\* const commentInput = { ... }
CommentInput ==
    [currentBody |-> comment,
     actionFailed |-> outcome.actionFailed,
     executionDetails |-> outcome.executionDetails,
     jobUrl |-> JobUrl,
     branchLink |-> cleanupResult.branchLink,
     prLink |-> prLink,
     branchName |-> IF cleanupResult.shouldDeleteBranch THEN NoBranch
                    ELSE CLAUDE_BRANCH_ENV,
     errorDetails |-> outcome.errorDetails]

\* updateCommentBody, the PATCH request and process.exit.
UpdateComment ==
    /\ updPc = "update"
    /\ \E requestOk \in BOOLEAN :
         LET updatedBody == updateCommentBody(CommentInput)
             endpoint    == UpdateEndpoint(isPRReviewComment)
             namespace   == CommentNamespace(endpoint)
             found       == requestOk /\ commentStore[namespace].author # "none"
         IN  /\ updateRequests' = Append(updateRequests,
                    [endpoint |-> endpoint, id |-> commentId, body |-> updatedBody,
                     ok |-> found])
             /\ IF found
                THEN /\ commentStore' = [commentStore EXCEPT ![namespace] =
                                            PatchedBody(@, updatedBody)]
                     /\ bodiesWritten' = Append(bodiesWritten, updatedBody)
                     /\ UpdateExit(0)
                ELSE /\ UNCHANGED <<commentStore, bodiesWritten>>
                     /\ UpdateExit(1)
    /\ UNCHANGED <<updInputs, runs, fetchRequests, branchDeletes, comment,
                   isPRReviewComment, cleanupResult, prLink, outcome>>
    /\ UNCHANGED <<toolVars, ctxVars, prepVars, execVars, auxVars>>

\* The workflow runs the update step (again) with the same environment.
StartUpdate ==
    /\ updPc \in {"ready", "exit0", "exit1"}
    /\ runs < MaxRuns
    /\ runs' = runs + 1
    /\ updPc' = "fetch"
    /\ updExitCode' = -1
    /\ comment' = NoComment
    /\ isPRReviewComment' = FALSE
    /\ cleanupResult' = [shouldDeleteBranch |-> FALSE, branchLink |-> NoLink]
    /\ prLink' = NoLink
    /\ outcome' = NoOutcome
    /\ UNCHANGED <<updInputs, commentStore, fetchRequests, updateRequests,
                   branchDeletes, bodiesWritten>>
    /\ UNCHANGED <<toolVars, ctxVars, prepVars, execVars, auxVars>>

\* ====================================================================
\* The new branch's name (github/operations/branch.ts, setupBranch)
\* ====================================================================
\* Strings are sequences of one-character strings, so that equality of two
\* names is equality of the strings git sees.
DigitChars == << "0", "1", "2", "3", "4", "5", "6", "7", "8", "9" >>

IsDigit(c) == \E i \in DOMAIN DigitChars : DigitChars[i] = c

\* padStart(width, "0") of a number's decimal digits.
Pad(n, width) ==
    [i \in 1..width |-> DigitChars[((n \div (10 ^ (width - i))) % 10) + 1]]

\* `${entityNumber}`: the decimal digits, no padding.
Decimal(n) ==
    IF n < 10 THEN Pad(n, 1)
    ELSE IF n < 100 THEN Pad(n, 2)
    ELSE IF n < 1000 THEN Pad(n, 3)
    ELSE Pad(n, 4)

\* new Date().toISOString(): YYYY-MM-DDTHH:mm:ss.sssZ
toISOString(date) ==
    Pad(date.year, 4) \o << "-" >> \o Pad(date.month, 2) \o << "-" >> \o
    Pad(date.day, 2) \o << "T" >> \o Pad(date.hours, 2) \o << ":" >> \o
    Pad(date.minutes, 2) \o << ":" >> \o Pad(date.seconds, 2) \o << "." >> \o
    Pad(date.milliseconds, 3) \o << "Z" >>

\* .replace(/[:-]/g, "")
RemoveColonsAndDashes(str) ==
    LET Keep(c) == c \notin {":", "-"} IN SelectSeq(str, Keep)

\* Variant: the milliseconds stay in the string.
KeepMilliseconds(str) == str

\* .replace(/\.\d{3}Z/, ""): the first match is removed.
RemoveMilliseconds(str) ==
    LET Matches(i) == /\ i + 4 <= Len(str)
                      /\ str[i] = "."
                      /\ \A k \in 1..3 : IsDigit(str[i + k])
                      /\ str[i + 4] = "Z"
        starts == {i \in DOMAIN str : Matches(i)}
    IN  IF starts = {} THEN str
        ELSE LET first == CHOOSE i \in starts : \A j \in starts : i <= j
             IN  SubSeq(str, 1, first - 1) \o SubSeq(str, first + 5, Len(str))

\* .split("T").join("_")
SplitTJoinUnderscore(str) ==
    [i \in DOMAIN str |-> IF str[i] = "T" THEN "_" ELSE str[i]]

\* const timestamp = new Date().toISOString()...
timestampOf(date) ==
    SplitTJoinUnderscore(RemoveMilliseconds(RemoveColonsAndDashes(toISOString(date))))

\* const entityType = isPR ? "pr" : "issue";
entityTypeOf(isPRFlag) ==
    IF isPRFlag THEN << "p", "r" >> ELSE << "i", "s", "s", "u", "e" >>

\* const newBranch = `claude/${entityType}-${entityNumber}-${timestamp}`;
newBranchOf(input) ==
    << "c", "l", "a", "u", "d", "e", "/" >> \o entityTypeOf(input.isPR) \o
    << "-" >> \o Decimal(input.entityNumber) \o << "-" >> \o timestampOf(input.date)

\* Clock readings: two days, two hours, two seconds, two millisecond values.
ClockReadings ==
    [year : {2025}, month : {6}, day : {1, 11}, hours : {0, 1}, minutes : {59},
     seconds : {5, 10}, milliseconds : {0, 678}]

NamedEntityNumbers == {1, 11, 110}

NameInputs == [isPR : BOOLEAN, entityNumber : NamedEntityNumbers, date : ClockReadings]

\* No naming run is in progress.
IdleNaming ==
    /\ nameInputs = << >>
    /\ namePc = "idle"
    /\ generatedNames = << >>

\* Two jobs reach the naming code of setupBranch.
GenerateBranchNames ==
    /\ namePc = "input"
    /\ generatedNames' = [i \in DOMAIN nameInputs |-> newBranchOf(nameInputs[i])]
    /\ namePc' = "named"
    /\ UNCHANGED nameInputs
    /\ UNCHANGED <<toolVars, ctxVars, prepVars, updVars, execVars, gitVars>>

\* ====================================================================
\* Local git operations server (mcp/local-git-ops-server.ts)
\* ====================================================================
\* The working copy as the two tools see it.  existing: paths present in the
\* working tree; dirty: present paths whose content differs from the index
\* (new or edited files); staged: paths whose index entry differs from HEAD.
RepoFiles == {"a.js", "b.js", "c.js"}

MaxGitCalls == 2

\* The files argument of a call: one or two distinct paths.
FileLists ==
    {<< f >> : f \in RepoFiles} \cup
    {<< f, g >> : <<f, g>> \in {pair \in RepoFiles \X RepoFiles : pair[1] # pair[2]}}

\* git add "<path>": fails when the path matches no file; otherwise the
\* path's change, if any, is staged.
gitAdd(tree, file) ==
    IF file \notin tree.existing
    THEN [ok |-> FALSE, tree |-> tree]
    ELSE [ok |-> TRUE,
          tree |-> IF file \in tree.dirty
                   THEN [tree EXCEPT !.dirty = @ \ {file}, !.staged = @ \cup {file}]
                   ELSE tree]

\* git rm "<path>": fails when the path matches no file or the file has
\* local changes; otherwise the file is removed and the removal staged.
gitRm(tree, file) ==
    IF file \notin tree.existing \/ file \in tree.dirty \/ file \in tree.staged
    THEN [ok |-> FALSE, tree |-> tree]
    ELSE [ok |-> TRUE,
          tree |-> [tree EXCEPT !.existing = @ \ {file}, !.staged = @ \cup {file}]]

\* git commit -m "<message>": commits the whole index; fails when nothing is
\* staged and when git refuses the commit (commitOk is FALSE).
gitCommit(tree, commitOk) ==
    IF tree.staged = {} \/ ~commitOk
    THEN [ok |-> FALSE, tree |-> tree, committed |-> {}]
    ELSE [ok |-> TRUE, tree |-> [tree EXCEPT !.staged = {}],
          committed |-> tree.staged]

\* "for (const file of files) runGitCommand(...)": the loop stops at the
\* first command that throws.
RECURSIVE ForEachFile(_, _, _, _)
ForEachFile(tool, tree, files, i) ==
    IF i > Len(files) THEN [ok |-> TRUE, tree |-> tree]
    ELSE LET step == IF tool = "commit_files" THEN gitAdd(tree, files[i])
                     ELSE gitRm(tree, files[i])
         IN  IF step.ok THEN ForEachFile(tool, step.tree, files, i + 1)
             ELSE [ok |-> FALSE, tree |-> step.tree]

\* The handler of commit_files (git add per file, then git commit) and of
\* delete_files (git rm per file, then git commit); the catch block returns
\* the error and undoes nothing.
HandleTool(tool, tree, files, configOk, commitOk) ==
    IF tool = "commit_files" /\ ~configOk
    THEN [ok |-> FALSE, tree |-> tree, committed |-> {}]
    ELSE LET staged == ForEachFile(tool, tree, files, 1)
         IN  IF ~staged.ok
             THEN [ok |-> FALSE, tree |-> staged.tree, committed |-> {}]
             ELSE gitCommit(staged.tree, commitOk)

\* The server is not running.
IdleGit ==
    /\ gitTree = [existing |-> {}, dirty |-> {}, staged |-> {}]
    /\ gitCommits = << >>
    /\ gitCalls = << >>
    /\ gitPc = "idle"

IdleAux ==
    /\ IdleNaming
    /\ IdleGit

\* The agent creates or edits a file with its file tools.
EditFile ==
    /\ gitPc = "serving"
    /\ \E file \in RepoFiles :
         /\ file \notin gitTree.dirty
         /\ gitTree' = [gitTree EXCEPT !.existing = @ \cup {file},
                                        !.dirty = @ \cup {file}]
    /\ UNCHANGED <<gitCommits, gitCalls, gitPc>>
    /\ UNCHANGED <<toolVars, ctxVars, prepVars, updVars, execVars, nameVars>>

ServeTool(tool) ==
    /\ gitPc = "serving"
    /\ Len(gitCalls) < MaxGitCalls
    /\ \E files \in FileLists, configOk \in BOOLEAN, commitOk \in BOOLEAN :
         LET result == HandleTool(tool, gitTree, files, configOk, commitOk)
         IN  /\ gitTree' = result.tree
             /\ gitCommits' = IF result.ok
                              THEN Append(gitCommits, result.committed)
                              ELSE gitCommits
             /\ gitCalls' = Append(gitCalls,
                                [tool |-> tool, files |-> Range(files),
                                 isError |-> ~result.ok,
                                 stagedBefore |-> gitTree.staged,
                                 stagedAfter |-> result.tree.staged,
                                 commitsBefore |-> Len(gitCommits),
                                 commitsAfter |-> Len(gitCommits')])
    /\ UNCHANGED gitPc
    /\ UNCHANGED <<toolVars, ctxVars, prepVars, updVars, execVars, nameVars>>

CommitFiles == ServeTool("commit_files")

DeleteFiles == ServeTool("delete_files")

\* ====================================================================
\* Agent execution (claude/executor.ts, entry point execute-claude)
\* ====================================================================
\* ClaudeExecutorConfig, as far as execute() reads it.  prompt: config.prompt
\* is a non-empty string or not; promptFile: not configured, configured but
\* absent on disk, or present; mcpConfig: not configured, not parseable as an
\* MCP configuration, or valid; apiKey: config.apiKey is set.
ExecutorConfigs ==
    [prompt : {"unset", "set"},
     promptFile : {"unset", "missing", "present"},
     mcpConfig : {"unset", "invalid", "valid"},
     apiKey : BOOLEAN]

\* The event of the spawned process whose handler settles the promise first:
\* "close" with the exit code (null when a signal ended the process), or
\* "error" when the process could not be spawned.
ProcessEvents ==
    { [event |-> "close", code |-> "0"], [event |-> "close", code |-> "1"],
      [event |-> "close", code |-> "null"], [event |-> "close", code |-> "-2"],
      [event |-> "error", code |-> "null"] }

\* anthropic.messages.create resolves or rejects.
ApiCalls == {"ok", "error"}

AgentRuns == [process : ProcessEvents, api : ApiCalls]

ExecutionLogFile == "/tmp/claude-execution.json"

NoExecResult ==
    [threw |-> FALSE, conclusion |-> "", executionFile |-> "", error |-> "",
     log |-> ""]

\* createExecutionLog(result, error): the conclusion written to the log file.
createExecutionLog(error) == IF error # "" THEN "failure" ELSE "success"

\* readPrompt(): the error it throws ("" when it returns the prompt).
readPrompt(config) ==
    IF config.prompt = "set" THEN ""
    ELSE IF config.promptFile # "unset"
         THEN IF config.promptFile = "missing"
              THEN "Error: Prompt file not found"
              ELSE ""
         ELSE "Error: Either prompt or promptFile must be provided"

\* setupMCPConfig(): the configuration file, or null (here FALSE) when no
\* configuration is given or it cannot be parsed.
setupMCPConfig(config) == config.mcpConfig = "valid"

\* Variant: the catch block of execute() lets the error through.
executeCatchRethrows(error) ==
    [threw |-> TRUE, conclusion |-> "", executionFile |-> "", error |-> error,
     log |-> ""]

\* execute(), catch block.
executeCatch(error) ==
    [threw |-> FALSE, conclusion |-> "failure", executionFile |-> ExecutionLogFile,
     error |-> error, log |-> createExecutionLog(error)]

\* executeWithMCP, claude.on("close", ...).
closeHandler(code) ==
    [threw |-> FALSE,
     conclusion |-> IF code = "0" THEN "success" ELSE "failure",
     executionFile |-> ExecutionLogFile,
     error |-> IF code # "0" THEN "Claude Code exited with code" ELSE "",
     log |-> createExecutionLog(IF code # "0" THEN "Process exited with code" ELSE "")]

\* executeWithMCP, claude.on("error", ...).
errorHandler ==
    [threw |-> FALSE, conclusion |-> "failure", executionFile |-> ExecutionLogFile,
     error |-> "Error: spawn claude", log |-> createExecutionLog("Error: spawn claude")]

\* executeWithMCP: a throw before the promise is an error for execute()'s
\* catch block ("return await"); the promise is only ever resolved.
executeWithMCP(config, run) ==
    IF ~config.apiKey
    THEN executeCatch("Error: Anthropic API key is required")
    ELSE IF run.process.event = "close"
         THEN closeHandler(run.process.code)
         ELSE errorHandler

\* executeBasicAPI: both the missing key and a rejected API call throw into
\* execute()'s catch block.
executeBasicAPI(config, run) ==
    IF ~config.apiKey
    THEN executeCatch("Error: Anthropic API key is required")
    ELSE IF run.api = "error"
         THEN executeCatch("Error: API request failed")
         ELSE [threw |-> FALSE, conclusion |-> "success",
               executionFile |-> ExecutionLogFile, error |-> "",
               log |-> createExecutionLog("")]

\* ClaudeExecutor.execute(), which is all runClaude does.
execute(config, run) ==
    IF readPrompt(config) # ""
    THEN executeCatch(readPrompt(config))
    ELSE IF setupMCPConfig(config)
         THEN executeWithMCP(config, run)
         ELSE executeBasicAPI(config, run)

runClaude(config, run) == execute(config, run)

\* The execution step is not running.
IdleExecute ==
    /\ execConfig = [prompt |-> "unset", promptFile |-> "unset",
                     mcpConfig |-> "unset", apiKey |-> FALSE]
    /\ agentRun = [process |-> [event |-> "close", code |-> "0"], api |-> "ok"]
    /\ execPc = "idle"
    /\ execResult = NoExecResult
    /\ executionLog = ""
    /\ conclusionOutput = Undefined
    /\ executeFailed = ""

\* main() of the execution entry point: runClaude, the outputs, setFailed.
ExecuteClaude ==
    /\ execPc = "start"
    /\ LET result == runClaude(execConfig, agentRun)
       IN  /\ execResult' = result
           /\ executionLog' = result.log
           /\ IF result.threw
              THEN /\ conclusionOutput' = Undefined
                   /\ executeFailed' = "Failed to execute Claude"
              ELSE /\ conclusionOutput' = result.conclusion
                   /\ executeFailed' =
                          IF result.conclusion = "failure"
                          THEN (IF result.error # "" THEN result.error
                                ELSE "Claude execution failed")
                          ELSE ""
    /\ execPc' = "exited"
    /\ UNCHANGED <<execConfig, agentRun>>
    /\ UNCHANGED <<toolVars, ctxVars, prepVars, updVars, auxVars>>

Init ==
    /\ InitContext
    /\ InitPipeline
    /\ IdleUpdate
    /\ IdleExecute
    /\ IdleAux
    /\ customAllowedTools = << >>
    /\ customDisallowedTools = << >>
    /\ actionsPermission = "unset"
    /\ useCommitSigning = FALSE
    /\ toolsPc = "input"
    /\ ALLOWED_TOOLS = << >>
    /\ DISALLOWED_TOOLS_OUT = << >>

Next ==
    \/ CheckWritePermissions
    \/ CheckTriggerAction
    \/ CheckHumanActor
    \/ CreateInitialComment
    \/ FetchGitHubData
    \/ SetupBranchOpenPR
    \/ SetupBranchRepoLookupFails
    \/ SetupBranchNew
    \/ UpdateTrackingComment
    \/ CreatePrompt
    \/ PrepareMcpConfig

Spec == Init /\ [][Next]_vars

\* ====================================================================
\* Capability gate as a function of its inputs
\* ====================================================================
\* The context of a tool-resolution run: the pipeline is not running.
IdleContext ==
    /\ GITEA_API_URL_ENV = GiteaApiUrl
    /\ GITEA_SERVER_URL_ENV = GiteaServerUrl
    /\ GITHUB_SERVER_URL_ENV = Undefined
    /\ eventName = IF isPR THEN "pull_request" ELSE "issues"
    /\ entityNumber = 7
    /\ baseBranchInput = NoBranch
    /\ actorType = "User"
    /\ prState = IF isPR THEN "OPEN" ELSE "NONE"

InitTools ==
    /\ customAllowedTools \in SeqsUpTo(RawTools, MaxUserTools)
    /\ customDisallowedTools \in SeqsUpTo(RawTools, MaxUserTools)
    /\ actionsPermission \in {"read", "unset"}
    /\ isPR \in BOOLEAN
    /\ useCommitSigning \in BOOLEAN
    /\ toolsPc = "input"
    /\ ALLOWED_TOOLS = << >>
    /\ DISALLOWED_TOOLS_OUT = << >>
    /\ IdleContext
    /\ InitPipeline
    /\ IdleUpdate
    /\ IdleExecute
    /\ IdleAux

\* createPrompt, "Set allowed tools" to the two exportVariable calls.
SetAllowedTools ==
    /\ toolsPc = "input"
    /\ ALLOWED_TOOLS' = buildAllowedToolsString(customAllowedTools,
                            hasActionsReadPermission, useCommitSigning)
    /\ DISALLOWED_TOOLS_OUT' = buildDisallowedToolsString(customDisallowedTools,
                                                          customAllowedTools)
    /\ toolsPc' = "resolved"
    /\ UNCHANGED <<toolInputs, ctxVars, prepVars, updVars, execVars, auxVars>>

NextTools == SetAllowedTools

SpecTools == InitTools /\ [][NextTools]_vars

\* ====================================================================
\* The final update step on the comment and branch prepare left behind
\* ====================================================================
\* The events the update step runs for, with the endpoint family on which
\* prepare created the tracking comment.
UpdateEventKinds ==
    { <<"issues", FALSE>>, <<"issue_comment", TRUE>>,
      <<"pull_request_review_comment", TRUE>> }

\* prepare has finished: the tracking comment exists and its id is exported.
AfterPrepare ==
    /\ pc = IF PREPARE_SUCCESS = "false" THEN "exit1" ELSE "done"
    /\ permissionLookups = 0
    /\ permissionLevel = ""
    /\ containsTriggerOutput = "true"
    /\ triggerInput = [evaluated |-> TRUE, promptConfigured |-> FALSE,
                       phraseInText |-> TRUE, fieldMatches |-> FALSE]
    /\ createRequests = << [endpoint |-> IF trackingFamily = "review"
                                         THEN "review_reply" ELSE "issue_comment",
                            ok |-> TRUE] >>
    /\ forgeComments = << [id |-> 1, family |-> trackingFamily] >>
    /\ commentId = 1
    /\ gitHead = IF CLAUDE_BRANCH_ENV # NoBranch THEN CLAUDE_BRANCH_ENV
                 ELSE IF isPR THEN PrHeadRef ELSE DefaultBranch
    /\ gitCheckouts = << gitHead >>
    /\ createdBranches = IF CLAUDE_BRANCH_ENV # NoBranch THEN {CLAUDE_BRANCH_ENV} ELSE {}
    /\ branchSetupFailure = ""
    /\ stepsCompleted = << "checkWritePermissions", "checkTriggerAction",
                           "checkHumanActor", "createInitialComment" >>
    /\ branchInfo = [returned |-> TRUE,
                     baseBranch |-> UpdateBaseBranch,
                     claudeBranch |-> CLAUDE_BRANCH_ENV,
                     currentBranch |-> gitHead]
    /\ trackingBranchLink = CLAUDE_BRANCH_ENV
    /\ promptCreated = TRUE
    /\ mcpBranchName = gitHead
    /\ failedStatus = IF PREPARE_SUCCESS = "false" THEN "Prepare step failed" ELSE ""
    /\ prepareErrorOutput = IF Truthy(PREPARE_ERROR) THEN PREPARE_ERROR ELSE ""
    /\ exitCode = IF PREPARE_SUCCESS = "false" THEN 1 ELSE 0

InitUpdate ==
    /\ GITEA_API_URL_ENV \in {Undefined, GiteaApiUrl}
    /\ GITEA_SERVER_URL_ENV = GiteaServerUrl
    /\ GITHUB_SERVER_URL_ENV = Undefined
    /\ \E kind \in UpdateEventKinds : eventName = kind[1] /\ isPR = kind[2]
    /\ entityNumber = 7
    /\ baseBranchInput = NoBranch
    /\ actorType = "User"
    /\ CLAUDE_BRANCH_ENV \in {NoBranch, NewBranchName(1)}
    /\ prState = IF ~isPR THEN "NONE"
                 ELSE IF CLAUDE_BRANCH_ENV = NoBranch THEN "OPEN" ELSE "CLOSED"
    /\ customAllowedTools = << >>
    /\ customDisallowedTools = << >>
    /\ actionsPermission = "unset"
    /\ useCommitSigning = FALSE
    /\ toolsPc = "resolved"
    /\ ALLOWED_TOOLS = buildAllowedToolsString(<< >>, FALSE, FALSE)
    /\ DISALLOWED_TOOLS_OUT = buildDisallowedToolsString(<< >>, << >>)
    /\ BASE_BRANCH_ENV \in {NoBranch, ConfiguredBaseBranch}
    /\ PREPARE_SUCCESS \in {"true", "false"}
    /\ PREPARE_ERROR \in (IF PREPARE_SUCCESS = "false" THEN {Undefined, "prepare failed"}
                          ELSE {Undefined})
    /\ CLAUDE_SUCCESS \in {"true", "false"}
    /\ outputFile \in OutputFileStates
    /\ cleanupObs \in (IF CLAUDE_BRANCH_ENV = NoBranch THEN {NoObservation}
                       ELSE BranchObservations)
    /\ prLinkObs \in (IF CLAUDE_BRANCH_ENV = NoBranch THEN {NoObservation}
                      ELSE {cleanupObs, [claude |-> "error", base |-> "sha1"]})
    /\ trackingFamily \in (IF isPullRequestReviewCommentEvent THEN {"review", "issue"}
                           ELSE {"issue"})
    /\ \E other \in {NoComment, ForeignComment} :
         LET tracking == createCommentBody(JobUrl,
                             IF CLAUDE_BRANCH_ENV # NoBranch
                             THEN createBranchLink(CLAUDE_BRANCH_ENV) ELSE NoLink)
         IN  commentStore = IF trackingFamily = "review"
                            THEN [review |-> tracking, issue |-> other]
                            ELSE [review |-> other, issue |-> tracking]
    /\ AfterPrepare
    /\ IdleExecute
    /\ IdleAux
    /\ updPc = "ready"
    /\ runs = 0
    /\ fetchRequests = << >>
    /\ updateRequests = << >>
    /\ branchDeletes = << >>
    /\ comment = NoComment
    /\ isPRReviewComment = FALSE
    /\ cleanupResult = [shouldDeleteBranch |-> FALSE, branchLink |-> NoLink]
    /\ prLink = NoLink
    /\ outcome = NoOutcome
    /\ bodiesWritten = << >>
    /\ updExitCode = -1

NextUpdate ==
    \/ StartUpdate
    \/ FetchComment
    \/ CheckAndDeleteEmptyBranch
    \/ CheckPrLink
    \/ ReadOutcome
    \/ UpdateComment

SpecUpdate == InitUpdate /\ [][NextUpdate]_vars

\* ====================================================================
\* Agent execution followed by the final update step
\* ====================================================================
\* The job after prepare: the execution step runs with any configuration and
\* any behaviour of the agent, then the update step runs.  CLAUDE_SUCCESS and
\* OUTPUT_FILE reach the update step through the workflow file, which is not
\* part of the sources: they take any of their values.
InitExecute ==
    /\ GITEA_API_URL_ENV = GiteaApiUrl
    /\ GITEA_SERVER_URL_ENV = GiteaServerUrl
    /\ GITHUB_SERVER_URL_ENV = Undefined
    /\ eventName = "issue_comment"
    /\ isPR = TRUE
    /\ entityNumber = 7
    /\ baseBranchInput = NoBranch
    /\ actorType = "User"
    /\ CLAUDE_BRANCH_ENV = NoBranch
    /\ prState = "OPEN"
    /\ customAllowedTools = << >>
    /\ customDisallowedTools = << >>
    /\ actionsPermission = "unset"
    /\ useCommitSigning = FALSE
    /\ toolsPc = "resolved"
    /\ ALLOWED_TOOLS = buildAllowedToolsString(<< >>, FALSE, FALSE)
    /\ DISALLOWED_TOOLS_OUT = buildDisallowedToolsString(<< >>, << >>)
    /\ BASE_BRANCH_ENV = NoBranch
    /\ PREPARE_SUCCESS \in {"true", "false"}
    /\ PREPARE_ERROR \in (IF PREPARE_SUCCESS = "false" THEN {Undefined, "prepare failed"}
                          ELSE {Undefined})
    /\ CLAUDE_SUCCESS \in {"true", "false"}
    /\ outputFile \in OutputFileStates
    /\ cleanupObs = NoObservation
    /\ prLinkObs = NoObservation
    /\ trackingFamily = "issue"
    /\ commentStore = [review |-> NoComment,
                       issue |-> createCommentBody(JobUrl, NoLink)]
    /\ AfterPrepare
    /\ updPc = "ready"
    /\ runs = 0
    /\ fetchRequests = << >>
    /\ updateRequests = << >>
    /\ branchDeletes = << >>
    /\ comment = NoComment
    /\ isPRReviewComment = FALSE
    /\ cleanupResult = [shouldDeleteBranch |-> FALSE, branchLink |-> NoLink]
    /\ prLink = NoLink
    /\ outcome = NoOutcome
    /\ bodiesWritten = << >>
    /\ updExitCode = -1
    /\ execConfig \in ExecutorConfigs
    /\ agentRun \in AgentRuns
    /\ execPc = "start"
    /\ execResult = NoExecResult
    /\ executionLog = ""
    /\ conclusionOutput = Undefined
    /\ executeFailed = ""
    /\ IdleAux

\* The update step is a later step of the same job.
UpdateAfterExecute ==
    /\ execPc = "exited"
    /\ NextUpdate

NextExecute ==
    \/ ExecuteClaude
    \/ UpdateAfterExecute

SpecExecute == InitExecute /\ [][NextExecute]_vars

\* ====================================================================
\* The agent's session with the local git operations server
\* ====================================================================
\* The server starts in the checkout prepare left: a clean index, one
\* tracked file.
InitGitOps ==
    /\ isPR = FALSE
    /\ IdleContext
    /\ customAllowedTools = << >>
    /\ customDisallowedTools = << >>
    /\ actionsPermission = "unset"
    /\ useCommitSigning = FALSE
    /\ toolsPc = "input"
    /\ ALLOWED_TOOLS = << >>
    /\ DISALLOWED_TOOLS_OUT = << >>
    /\ InitPipeline
    /\ IdleUpdate
    /\ IdleExecute
    /\ IdleNaming
    /\ gitTree = [existing |-> {"a.js"}, dirty |-> {}, staged |-> {}]
    /\ gitCommits = << >>
    /\ gitCalls = << >>
    /\ gitPc = "serving"

NextGitOps ==
    \/ EditFile
    \/ CommitFiles
    \/ DeleteFiles

SpecGitOps == InitGitOps /\ [][NextGitOps]_vars

\* ====================================================================
\* The final update step under every server-URL configuration
\* ====================================================================
\* An issue job whose prepare step created a claude branch and linked it in
\* the tracking comment; both server-URL variables take every kind of value.
InitLinks ==
    /\ GITEA_API_URL_ENV \in {Undefined, GiteaApiUrl}
    /\ GITEA_SERVER_URL_ENV \in {Undefined, "", GiteaServerUrl}
    /\ GITHUB_SERVER_URL_ENV \in {Undefined, "", InternalServerUrl}
    /\ eventName = "issues"
    /\ isPR = FALSE
    /\ entityNumber = 7
    /\ baseBranchInput = NoBranch
    /\ actorType = "User"
    /\ CLAUDE_BRANCH_ENV \in {NoBranch, NewBranchName(1)}
    /\ prState = "NONE"
    /\ customAllowedTools = << >>
    /\ customDisallowedTools = << >>
    /\ actionsPermission = "unset"
    /\ useCommitSigning = FALSE
    /\ toolsPc = "resolved"
    /\ ALLOWED_TOOLS = buildAllowedToolsString(<< >>, FALSE, FALSE)
    /\ DISALLOWED_TOOLS_OUT = buildDisallowedToolsString(<< >>, << >>)
    /\ BASE_BRANCH_ENV = NoBranch
    /\ PREPARE_SUCCESS = "true"
    /\ PREPARE_ERROR = Undefined
    /\ CLAUDE_SUCCESS \in {"true", "false"}
    /\ outputFile = "unset"
    /\ cleanupObs \in (IF CLAUDE_BRANCH_ENV = NoBranch THEN {NoObservation}
                       ELSE BranchObservations)
    /\ prLinkObs = cleanupObs
    /\ trackingFamily = "issue"
    /\ commentStore =
           [review |-> NoComment,
            issue |-> createCommentBody(JobUrl,
                          IF CLAUDE_BRANCH_ENV # NoBranch
                          THEN createBranchLink(CLAUDE_BRANCH_ENV) ELSE NoLink)]
    /\ AfterPrepare
    /\ IdleExecute
    /\ IdleAux
    /\ updPc = "ready"
    /\ runs = 0
    /\ fetchRequests = << >>
    /\ updateRequests = << >>
    /\ branchDeletes = << >>
    /\ comment = NoComment
    /\ isPRReviewComment = FALSE
    /\ cleanupResult = [shouldDeleteBranch |-> FALSE, branchLink |-> NoLink]
    /\ prLink = NoLink
    /\ outcome = NoOutcome
    /\ bodiesWritten = << >>
    /\ updExitCode = -1

SpecLinks == InitLinks /\ [][NextUpdate]_vars

\* ====================================================================
\* Branch naming as a function of its inputs
\* ====================================================================
InitNaming ==
    /\ isPR = FALSE
    /\ IdleContext
    /\ customAllowedTools = << >>
    /\ customDisallowedTools = << >>
    /\ actionsPermission = "unset"
    /\ useCommitSigning = FALSE
    /\ toolsPc = "input"
    /\ ALLOWED_TOOLS = << >>
    /\ DISALLOWED_TOOLS_OUT = << >>
    /\ InitPipeline
    /\ IdleUpdate
    /\ IdleExecute
    /\ nameInputs \in [1..2 -> NameInputs]
    /\ namePc = "input"
    /\ generatedNames = << >>
    /\ IdleGit

NextNaming == GenerateBranchNames

SpecNaming == InitNaming /\ [][NextNaming]_vars

\* C2: after resolution no tool identifier is in both the allowed and the
\* disallowed output; a tool the user both allows and denies is disallowed only.
C2_NoToolInBothOutputs ==
    toolsPc = "resolved" =>
        /\ Range(ALLOWED_TOOLS) \cap Range(DISALLOWED_TOOLS_OUT) = {}
        /\ \A tool \in Range(normalizeToolList(customAllowedTools))
                       \cap Range(normalizeToolList(customDisallowedTools)) :
               tool \in Range(DISALLOWED_TOOLS_OUT) /\ tool \notin Range(ALLOWED_TOOLS)

\* C3: with no user entries, signing enabled gives the signing family and not
\* the local-git commit/delete tools; signing disabled gives the local-git
\* tools and no signing tool.
C3_SigningReplacesLocalGit ==
    (toolsPc = "resolved" /\ customAllowedTools = << >>) =>
        IF useCommitSigning
        THEN /\ Range(COMMIT_SIGNING_TOOLS) \subseteq Range(ALLOWED_TOOLS)
             /\ LocalGitCommitTools \cap Range(ALLOWED_TOOLS) = {}
        ELSE /\ LocalGitCommitTools \subseteq Range(ALLOWED_TOOLS)
             /\ Range(COMMIT_SIGNING_TOOLS) \cap Range(ALLOWED_TOOLS) = {}

\* C1: with actor-type checking enabled, an actor whose profile type is not
\* "User" stops the pipeline at checkHumanActor: no tracking comment, no
\* branch, no prompt and no MCP configuration.
C1_NonUserActorStopsPipeline ==
    (~ActorIsGitea /\ actorType # "User") =>
        /\ forgeComments = << >>
        /\ createdBranches = {}
        /\ ~branchInfo.returned
        /\ ~promptCreated
        /\ mcpBranchName = NoBranch

\* C4: when both tip SHAs are retrieved the cleanup classifies the branch as
\* empty (shouldDeleteBranch true, empty branch link) exactly when they are
\* equal, in either mode, and no branch delete is ever issued.
C4_EmptyIffEqualShasNeverDeleted ==
    /\ branchDeletes = << >>
    /\ (/\ updPc \in {"prLink", "outcome", "update", "exit0"}
        /\ CLAUDE_BRANCH_ENV # NoBranch
        /\ cleanupObs.claude \in Shas
        /\ cleanupObs.base \in Shas) =>
           /\ cleanupResult.shouldDeleteBranch <=> (cleanupObs.claude = cleanupObs.base)
           /\ (cleanupResult.branchLink = NoLink) <=> (cleanupObs.claude = cleanupObs.base)

C4_Witness ==
    /\ updPc = "exit0"
    /\ CLAUDE_BRANCH_ENV # NoBranch
    /\ cleanupObs.claude = cleanupObs.base
    /\ cleanupObs.claude \in Shas
    /\ cleanupResult.shouldDeleteBranch
    /\ branchDeletes = << >>

C6_FallbackOnceThenFatal ==
    (createRequests # << >> /\ ~createRequests[1].ok) =>
        /\ Len(createRequests) = 2
        /\ createRequests[2].endpoint = "issue_comment"
        /\ ~createRequests[2].ok =>
               /\ pc = "exit1"
               /\ exitCode = 1
               /\ createdBranches = {}
               /\ ~branchInfo.returned
               /\ ~promptCreated
               /\ mcpBranchName = NoBranch

C6_Witness ==
    /\ Len(createRequests) = 2
    /\ createRequests[1].endpoint = "review_reply"
    /\ ~createRequests[1].ok
    /\ ~createRequests[2].ok
    /\ pc = "exit1"

\* C7: at most one tracking comment is created per run: no create request
\* follows a create request that succeeded.
C7_AtMostOneCommentCreated ==
    /\ Len(forgeComments) <= 1
    /\ \A i \in DOMAIN createRequests :
           createRequests[i].ok => i = Len(createRequests)

\* C9: setupBranch returns, for an open PR, the PR's base ref, its head ref
\* as currentBranch and no claudeBranch, creating no branch; otherwise the
\* configured base branch (else the default branch) and a newly created
\* branch claude/{issue|pr}-{entityNumber}-{timestamp} as claudeBranch and
\* currentBranch.
C9_SetupBranchResult ==
    branchInfo.returned =>
        IF isPR /\ prState = "OPEN"
        THEN /\ branchInfo.baseBranch = PrBaseRef
             /\ branchInfo.currentBranch = PrHeadRef
             /\ branchInfo.claudeBranch = NoBranch
             /\ createdBranches = {}
        ELSE /\ branchInfo.baseBranch =
                    (IF baseBranchInput # NoBranch THEN baseBranchInput
                     ELSE DefaultBranch)
             /\ branchInfo.claudeBranch = branchInfo.currentBranch
             /\ createdBranches = {branchInfo.claudeBranch}
             /\ \E timestamp \in 1..MaxTimestamp :
                    branchInfo.claudeBranch =
                        << "claude", IF isPR THEN "pr" ELSE "issue",
                           entityNumber, timestamp >>

C9_Witness ==
    /\ branchInfo.returned
    /\ isPR
    /\ prState = "MERGED"
    /\ baseBranchInput = NoBranch
    /\ branchInfo.claudeBranch # NoBranch

\* C10: a returned BranchInfo names as currentBranch the branch checked out
\* by the last successful checkout, and the branch-link rewrite, prompt
\* creation and MCP configuration start only after that checkout.
C10_CurrentBranchCheckedOut ==
    /\ branchInfo.returned =>
           /\ gitHead = branchInfo.currentBranch
           /\ gitCheckouts # << >>
           /\ gitCheckouts[Len(gitCheckouts)] = branchInfo.currentBranch
    /\ (\/ pc \in {"updateTrackingComment", "createPrompt", "prepareMcpConfig", "done"}
        \/ trackingBranchLink # NoBranch
        \/ promptCreated
        \/ mcpBranchName # NoBranch) => branchInfo.returned
    /\ mcpBranchName # NoBranch => mcpBranchName = gitHead

C10_Witness ==
    /\ pc = "done"
    /\ mcpBranchName = PrHeadRef
    /\ gitHead = PrHeadRef

\* C11: when a git command of new-branch creation fails, or the branch
\* reported as current is not the new branch, the prepare process exits
\* non-zero and the branch-link rewrite, prompt creation and MCP
\* configuration never run.
C11_BranchCreationFailureIsFatal ==
    branchSetupFailure # "" =>
        /\ pc = "exit1"
        /\ exitCode = 1
        /\ ~branchInfo.returned
        /\ trackingBranchLink = NoBranch
        /\ ~promptCreated
        /\ mcpBranchName = NoBranch
        /\ Range(stepsCompleted) \cap
               {"setupBranch", "updateTrackingComment", "createPrompt",
                "prepareMcpConfig"} = {}

C11_Witness ==
    /\ branchSetupFailure = "branch name mismatch"
    /\ createdBranches # {}
    /\ pc = "exit1"
    /\ exitCode = 1

\* C14: the steps of prepare complete in the order trigger evaluation,
\* tracking comment, data fetch, branch setup, branch-link rewrite (only with
\* a newly created branch), prompt, MCP configuration; the step in progress
\* is the successor of the last completed one, and after a false trigger
\* evaluation no later step runs.
C14_StepsInPipelineOrder ==
    LET withRewrite ==
            << "checkWritePermissions", "checkTriggerAction", "checkHumanActor",
               "createInitialComment", "fetchGitHubData", "setupBranch",
               "updateTrackingComment", "createPrompt", "prepareMcpConfig" >>
        withoutRewrite ==
            << "checkWritePermissions", "checkTriggerAction", "checkHumanActor",
               "createInitialComment", "fetchGitHubData", "setupBranch",
               "createPrompt", "prepareMcpConfig" >>
        order == IF branchInfo.returned /\ branchInfo.claudeBranch \notin createdBranches
                 THEN withoutRewrite ELSE withRewrite
    IN  /\ Len(stepsCompleted) <= Len(order)
        /\ stepsCompleted = SubSeq(order, 1, Len(stepsCompleted))
        /\ pc \notin {"exit1", "skipped", "done"} =>
               /\ Len(stepsCompleted) < Len(order)
               /\ pc = order[Len(stepsCompleted) + 1]
        /\ pc = "done" => Len(stepsCompleted) = Len(order)
        /\ containsTriggerOutput = "false" =>
               /\ pc = "skipped"
               /\ Len(stepsCompleted) = 2
               /\ createRequests = << >>
               /\ gitCheckouts = << >>
               /\ ~promptCreated
               /\ mcpBranchName = NoBranch

C14_Witness ==
    /\ pc = "done"
    /\ Len(stepsCompleted) = 9
    /\ stepsCompleted[7] = "updateTrackingComment"
    /\ branchInfo.claudeBranch \in createdBranches

C13_NoLinksForEmptyBranch ==
    updPc \in {"outcome", "update", "exit0"} =>
        /\ CommentInput.prLink # NoLink =>
               /\ CLAUDE_BRANCH_ENV # NoBranch
               /\ ~cleanupResult.shouldDeleteBranch
        /\ (/\ CLAUDE_BRANCH_ENV # NoBranch
            /\ cleanupObs.claude \in Shas
            /\ cleanupObs.claude = cleanupObs.base) =>
               /\ CommentInput.branchLink = NoLink
               /\ CommentInput.prLink = NoLink
               /\ CommentInput.branchName = NoBranch
               /\ CommentInput.jobUrl = << getServerUrl, "actions/runs" >>

C13_Witness ==
    /\ updPc = "exit0"
    /\ isPR
    /\ CLAUDE_BRANCH_ENV # NoBranch
    /\ cleanupObs.claude = cleanupObs.base
    /\ cleanupObs.claude \in Shas
    /\ prLinkObs.claude = "error"
    /\ CommentInput.prLink = NoLink
    /\ CommentInput.branchLink = NoLink
    /\ updateRequests[Len(updateRequests)].body.jobUrl # NoLink

C16_UserAllowOverridesDefaultDeny ==
    toolsPc = "resolved" =>
        LET allowed == Range(normalizeToolList(customAllowedTools))
            denied  == Range(normalizeToolList(customDisallowedTools))
            additions ==
                (IF actionsPermission = "read" /\ isPR
                 THEN Range(ACTIONS_ALLOWED_TOOLS) ELSE {})
                \cup (IF useCommitSigning THEN Range(COMMIT_SIGNING_TOOLS) ELSE {})
        IN  /\ \A tool \in {"WebSearch", "WebFetch"} :
                   /\ (tool \in allowed /\ tool \notin denied) =>
                          tool \notin Range(DISALLOWED_TOOLS_OUT)
                   /\ tool \notin allowed => tool \in Range(DISALLOWED_TOOLS_OUT)
            /\ Range(DISALLOWED_TOOLS_OUT) = ({"WebSearch", "WebFetch"} \ allowed) \cup denied
            /\ Range(ALLOWED_TOOLS) = Range(BASE_ALLOWED_TOOLS) \cup additions \cup allowed
            /\ (actionsPermission # "read" /\ ~useCommitSigning) =>
                   Range(ALLOWED_TOOLS) = Range(BASE_ALLOWED_TOOLS) \cup allowed

C16_Witness ==
    /\ toolsPc = "resolved"
    /\ customAllowedTools = << " WebFetch ", "Bash(npm test)" >>
    /\ customDisallowedTools = << >>
    /\ "WebFetch" \notin Range(DISALLOWED_TOOLS_OUT)
    /\ "WebSearch" \in Range(DISALLOWED_TOOLS_OUT)
    /\ "Bash(npm test)" \in Range(ALLOWED_TOOLS)

\* C17: neither resolved list names an identifier twice, each lists its
\* identifiers in order of first insertion (fixed defaults, mode additions,
\* user entries), and resolving again gives the same lists.
C17_ListsDeduplicatedInInsertionOrder ==
    toolsPc = "resolved" =>
        /\ \A i, j \in DOMAIN ALLOWED_TOOLS :
               ALLOWED_TOOLS[i] = ALLOWED_TOOLS[j] => i = j
        /\ \A i, j \in DOMAIN DISALLOWED_TOOLS_OUT :
               DISALLOWED_TOOLS_OUT[i] = DISALLOWED_TOOLS_OUT[j] => i = j
        /\ \A i, j \in DOMAIN ALLOWED_TOOLS :
               (/\ ALLOWED_TOOLS[i] \in Range(BASE_ALLOWED_TOOLS)
                /\ ALLOWED_TOOLS[j] \notin Range(BASE_ALLOWED_TOOLS)) => i < j
        /\ ALLOWED_TOOLS = buildAllowedToolsString(customAllowedTools,
                               actionsPermission = "read" /\ isPR, useCommitSigning)
        /\ DISALLOWED_TOOLS_OUT = buildDisallowedToolsString(customDisallowedTools,
                                                             customAllowedTools)

\* C18: a CI-introspection tool is in the allow-set only when actions: read
\* is granted and the entity is a pull request, or when the user listed it;
\* with the permission on a pull request the whole family is in the allow-set.
C18_CiToolsOnlyWithPermissionOnPR ==
    toolsPc = "resolved" =>
        LET ciTools == { "mcp__github_actions__get_ci_status",
                         "mcp__github_actions__get_workflow_run_details",
                         "mcp__github_actions__download_job_log" }
        IN  /\ \A tool \in ciTools :
                   tool \in Range(ALLOWED_TOOLS) =>
                       \/ actionsPermission = "read" /\ isPR
                       \/ tool \in Range(normalizeToolList(customAllowedTools))
            /\ (actionsPermission = "read" /\ isPR) => ciTools \subseteq Range(ALLOWED_TOOLS)

C18_Witness ==
    /\ toolsPc = "resolved"
    /\ actionsPermission = "read"
    /\ isPR
    /\ customAllowedTools = << >>
    /\ "mcp__github_actions__download_job_log" \in Range(ALLOWED_TOOLS)

\* C19: on a comment event, once the trigger has been evaluated: a comment
\* body without the trigger phrase and no direct/override prompt gives
\* contains_trigger = "false" and the pipeline stops there, having made no
\* request that creates a comment, no branch and no prompt; with a
\* direct/override prompt configured the evaluation is true whatever the
\* comment body holds.
C19_NoPhraseNoActivationUnlessPrompt ==
    (IsCommentEvent /\ triggerInput.evaluated) =>
        /\ (~triggerInput.phraseInText /\ ~triggerInput.promptConfigured) =>
               /\ containsTriggerOutput = "false"
               /\ pc = "skipped"
               /\ stepsCompleted = << "checkWritePermissions", "checkTriggerAction" >>
               /\ createRequests = << >>
               /\ commentId = 0
               /\ createdBranches = {}
               /\ gitCheckouts = << >>
               /\ branchInfo = NoBranchInfo
               /\ ~promptCreated
               /\ mcpBranchName = NoBranch
               /\ exitCode = -1
        /\ triggerInput.promptConfigured =>
               /\ containsTriggerOutput = "true"
               /\ pc # "skipped"

C19_Witness ==
    /\ eventName = "issue_comment"
    /\ triggerInput.evaluated
    /\ ~triggerInput.phraseInText
    /\ ~triggerInput.promptConfigured
    /\ containsTriggerOutput = "false"
    /\ pc = "skipped"

C21_BranchNameFromTypeNumberSecond ==
    namePc = "named" =>
        LET SameSecond(d, e) == [d EXCEPT !.milliseconds = 0] =
                                [e EXCEPT !.milliseconds = 0]
            HasForm(name, input) ==
                LET prefix == IF input.isPR
                              THEN << "c", "l", "a", "u", "d", "e", "/", "p", "r", "-" >>
                              ELSE << "c", "l", "a", "u", "d", "e", "/",
                                      "i", "s", "s", "u", "e", "-" >>
                    number == Decimal(input.entityNumber)
                    stamp  == SubSeq(name, Len(name) - 14, Len(name))
                IN  /\ Len(name) = Len(prefix) + Len(number) + 1 + 15
                    /\ SubSeq(name, 1, Len(prefix)) = prefix
                    /\ SubSeq(name, Len(prefix) + 1, Len(prefix) + Len(number)) = number
                    /\ name[Len(name) - 15] = "-"
                    /\ stamp = Pad(input.date.year, 4) \o Pad(input.date.month, 2) \o
                               Pad(input.date.day, 2) \o << "_" >> \o
                               Pad(input.date.hours, 2) \o Pad(input.date.minutes, 2) \o
                               Pad(input.date.seconds, 2)
        IN  /\ \A i \in DOMAIN nameInputs : HasForm(generatedNames[i], nameInputs[i])
            /\ generatedNames[1] = generatedNames[2] <=>
                   /\ nameInputs[1].isPR = nameInputs[2].isPR
                   /\ nameInputs[1].entityNumber = nameInputs[2].entityNumber
                   /\ SameSecond(nameInputs[1].date, nameInputs[2].date)

C21_Witness ==
    /\ namePc = "named"
    /\ generatedNames[1] = generatedNames[2]
    /\ nameInputs[1].date.milliseconds # nameInputs[2].date.milliseconds
    /\ nameInputs[1].entityNumber = 11

\* C22: the base URL of every link is GITEA_SERVER_URL when that is set and
\* not empty, else GITHUB_SERVER_URL when that is set and not empty, else
\* https://github.com: the job-run link and the branch link of the tracking
\* comment prepare wrote, and the job-run link, the branch link and the
\* create-PR link of every body the final update sends, start with it.
C22_LinksUseServerUrlFallback ==
    LET base == IF GITEA_SERVER_URL_ENV \notin {Undefined, ""}
                THEN GITEA_SERVER_URL_ENV
                ELSE IF GITHUB_SERVER_URL_ENV \notin {Undefined, ""}
                     THEN GITHUB_SERVER_URL_ENV
                     ELSE "https://github.com"
        OnBase(link) == link # NoLink => link[1] = base
        BodyOnBase(body) == /\ body.jobUrl # NoLink
                            /\ OnBase(body.jobUrl)
                            /\ OnBase(body.branchLink)
                            /\ OnBase(body.prLink)
    IN  /\ BodyOnBase(commentStore.issue)
        /\ \A i \in DOMAIN updateRequests : BodyOnBase(updateRequests[i].body)
        /\ OnBase(cleanupResult.branchLink)
        /\ OnBase(prLink)

C22_Witness ==
    /\ GITEA_SERVER_URL_ENV = ""
    /\ GITHUB_SERVER_URL_ENV = InternalServerUrl
    /\ bodiesWritten # << >>
    /\ bodiesWritten[Len(bodiesWritten)].branchLink # NoLink
    /\ bodiesWritten[Len(bodiesWritten)].branchLink[1] = InternalServerUrl
    /\ bodiesWritten[Len(bodiesWritten)].prLink # NoLink
    /\ bodiesWritten[Len(bodiesWritten)].jobUrl[1] = InternalServerUrl

\* C23: every comment GET and every comment PATCH of the final update goes
\* to the endpoint family in which this job's tracking comment was created
\* (the issue-comment family when creation fell back to it), and a PATCH
\* that succeeded rewrote the comment of that family.
C23_UpdateUsesFamilyOfCreation ==
    /\ \A i \in DOMAIN fetchRequests :
           CommentNamespace(fetchRequests[i].endpoint) = trackingFamily
    /\ \A i \in DOMAIN updateRequests :
           CommentNamespace(updateRequests[i].endpoint) = trackingFamily

\* C24: when the prepare process has exited with a non-zero code, a failed
\* status with an error message has been set and the prepare_error output
\* holds an error message, on every path to the exit.
C24_NonZeroExitRecordsError ==
    exitCode = 1 =>
        /\ failedStatus # ""
        /\ prepareErrorOutput # ""

\* C25: when the prepare step failed (PREPARE_SUCCESS is "false"), the
\* final update computes a failed outcome and every body it sends carries
\* the failure header, with or without a prepare error message and for
\* every value of CLAUDE_SUCCESS.
C25_PrepareFailureReportedAsFailure ==
    PREPARE_SUCCESS = "false" =>
        /\ updPc = "update" => outcome.actionFailed
        /\ \A i \in DOMAIN updateRequests :
               updateRequests[i].body.header = "failure"

\* C26: in a job whose permission check and actor-type check have both run,
\* the components agree on the forge variant: the actor-type check was
\* skipped exactly when the permission lookup was skipped, and exactly then
\* the cleanup classification and the create-PR link check take their
\* reduced-capability (local git) path.
C26_OneForgeVariantPerJob ==
    (\E i \in DOMAIN stepsCompleted : stepsCompleted[i] = "checkHumanActor") =>
        /\ ActorIsGitea <=> (permissionLookups = 0)
        /\ ActorIsGitea <=> CleanupIsGitea
        /\ (permissionLookups = 0) <=> CleanupIsGitea

\* C27: in a run of the final update, a create-PR link is computed and sent
\* only together with a branch link, also when the PR-link check observes
\* the branches differently than the cleanup classification did.
C27_PrLinkOnlyWithBranchLink ==
    /\ updPc \in {"outcome", "update"} =>
           (prLink # NoLink => cleanupResult.branchLink # NoLink)
    /\ \A i \in DOMAIN updateRequests :
           updateRequests[i].body.prLink # NoLink =>
               updateRequests[i].body.branchLink # NoLink

\* C28: a commit_files or delete_files call that succeeded created exactly
\* one commit, and that commit changes only paths listed in the call; a call
\* that failed created no commit and left the staging area as it was before
\* the call.
C28_CommitHoldsOnlyListedFiles ==
    \A i \in DOMAIN gitCalls :
        LET call == gitCalls[i]
        IN  IF call.isError
            THEN /\ call.commitsAfter = call.commitsBefore
                 /\ call.stagedAfter = call.stagedBefore
            ELSE /\ call.commitsAfter = call.commitsBefore + 1
                 /\ gitCommits[call.commitsAfter] # {}
                 /\ gitCommits[call.commitsAfter] \subseteq call.files

\* C29: for the branch of the job, a branch link computed by
\* checkAndDeleteEmptyBranch at the final phase is the same URL string as the
\* one createBranchLink writes for that branch.
C29_OneBranchLinkUrl ==
    (/\ updPc \in {"prLink", "outcome", "update", "exit0", "exit1"}
     /\ CLAUDE_BRANCH_ENV # NoBranch
     /\ cleanupResult.branchLink # NoLink) =>
        cleanupResult.branchLink = createBranchLink(CLAUDE_BRANCH_ENV)

\* C30: when the claude branch exists and its tip is not the base branch's
\* tip (the base branch may have failed to load, not-found included),
\* checkAndDeleteEmptyBranch returns a branch link.
C30_BaseFailureKeepsBranchLink ==
    (/\ updPc \in {"prLink", "outcome", "update", "exit0"}
     /\ CLAUDE_BRANCH_ENV # NoBranch
     /\ cleanupObs.claude \in Shas
     /\ cleanupObs.base # cleanupObs.claude) =>
        cleanupResult.branchLink # NoLink
====
